---- MODULE Spec2Model ----
(***************************************************************************)
(* A model of StravaClient (strava-client): the credential state, the      *)
(* refresh-in-flight marker and the request pipeline in front of them.     *)
(*                                                                         *)
(* JavaScript runs every piece of code between two awaits to completion,   *)
(* so each action below is one such piece: the synchronous start of a      *)
(* call, or the continuation that runs when an awaited promise settles.    *)
(* Strings are modelled as numbers: 0 is the empty string (falsy), n > 0   *)
(* a non-empty string.                                                     *)
(***************************************************************************)
EXTENDS Integers, Sequences, FiniteSets, TLC

\* ------------------------------------------------------------------ bounds
NumCallers == 2       \* calls on the client that may be under way together
MaxNow == 1           \* the clock runs from 0 to MaxNow seconds
MaxObjects == 3       \* token objects the calling code holds (SpecTokens)

Callers == 1..NumCallers
Times == 0..MaxNow

\* The pages a page source has before its empty ones, and the most items
\* of a page and of a page size.
MaxPages == 2
MaxPerPage == 2

\* ------------------------------------------------------------------ values
\* A StravaTokens value; held = FALSE stands for null.
Tok(a, r, e) == [held |-> TRUE, accessToken |-> a, refreshToken |-> r, expiresAt |-> e]
NullTokens == [held |-> FALSE, accessToken |-> 0, refreshToken |-> 0, expiresAt |-> 0]

\* expiresAt values: 0 is in the past, Far is ahead of every now + refreshBuffer
\* but the last, which it equals.
Far == MaxNow + 1

\* What the calling code passes to setTokens: a usable stale triple, a fresh
\* one, one with an empty access token and one with an empty refresh token.
TokenInputs == {Tok(1, 1, 0), Tok(1, 1, Far), Tok(0, 1, 0), Tok(1, 0, 0)}

\* The token response the OAuth server gives the refresh that caller c
\* started: new tokens, different for every refresh.
ServerTokens(c) == {Tok(c + 1, c + 1, Far)}

\* The ways a network exchange fails: a classified HTTP error, or a
\* StravaNetworkError (timed out, unreachable).
ExchangeErrors == {"Http", "Network"}

\* config.refreshBuffer values the client is constructed with
RefreshBuffers == {1}

VARIABLES
    config,          \* this.config: [autoRefresh, refreshBuffer]
    tokens,          \* this.tokens
    refreshPromise,  \* this.refreshPromise: 0 is null, c > 0 names refreshes[c]
    refreshes,       \* refreshes[c]: the promise of the refreshAccessToken()
                     \* that caller c's call made, while something refers to it
    call,            \* the call of each caller: a facade call, or a call of
                     \* refreshAccessToken() by the application
    now,             \* Math.floor(Date.now() / 1000)
    objs,            \* the token objects the calling code holds a reference
                     \* to: [val, stored, returned], stored when this.tokens
                     \* is that very object, returned when getTokens() made it

    kind,            \* kind[c]: what caller c's call is: "api" for a facade
                     \* call (and for refreshAccessToken), "deauthorize",
                     \* or "exchange" for exchangeAuthorizationCode
    asked,           \* whether hasValidTokens() has been called, and what the
                     \* latest call returned
    netcfg,          \* this.config: what was passed as timeout (given), the
                     \* timeout kept, and whether onRequest, onResponse are set
    rq,              \* the call followed through the transport (SpecTransport)
    fxs,             \* the fetchWithTimeout calls that call has made, in order
    rateLimitInfo,   \* this.rateLimitInfo
    flights,         \* requests in flight together on the client (SpecRate)
    pg,              \* one run of paginate / paginateAll (SpecPages)
    cls,             \* one use of parseStravaError (SpecErrors)
    webhook          \* one use of a webhook helper (SpecWebhook)

vars == <<config, tokens, refreshPromise, refreshes, call, now, objs, kind, asked,
          netcfg, rq, fxs, rateLimitInfo, flights, pg, cls, webhook>>
\* What the refresh and request machinery leaves alone.
authVars == <<kind, asked>>
netVars == <<netcfg, rq, fxs, rateLimitInfo>>
extraVars == <<flights, pg, cls, webhook>>
aside == <<authVars, netVars, extraVars>>
clientVars == <<config, tokens, refreshPromise, refreshes, call, now, objs>>
\* What the requests in flight together leave alone, and what a run of the
\* pagination leaves alone.
notRate == <<clientVars, authVars, pg, cls, webhook>>
notPages == <<clientVars, authVars, netVars, flights, cls, webhook>>
notErrors == <<clientVars, authVars, netVars, flights, pg, webhook>>
notWebhook == <<clientVars, authVars, netVars, flights, pg, cls>>

\* ------------------------------------------------------------ the client
\* A call: where it stands (pc), the refresh promise it awaits (ref), the
\* refresh token it was given (arg, refreshAccessToken only), the API
\* requests it has sent (sent) and the error it ended with (err).
\*   facade call:          idle -> awaitOwn | awaitOther -> inflight -> done | failed
\*   refreshAccessToken(): idle -> awaitDirect -> returned | threw
IdleCall == [pc |-> "idle", ref |-> 0, arg |-> 0, sent |-> 0, err |-> "none"]
\* A refreshAccessToken() promise: st is "fetch" while the token exchange is
\* in flight, "callback" while onTokenRefresh is awaited, then "resolved" or
\* "rejected" (with err). sent counts the exchanges it issued, data is the
\* triple it stored in this.tokens, cb lists the arguments of its
\* onTokenRefresh invocations and cbOut how the callback ended.
NoRefresh == [st |-> "none", sent |-> 0, data |-> NullTokens, err |-> "none",
              cb |-> <<>>, cbOut |-> "none"]

\* src: refreshTokenIfNeeded, "const shouldRefresh = ..."
shouldRefresh_NoBuffer(t, n, buffer) == t.expiresAt < n
shouldRefresh_Lax(t, n, buffer) == t.expiresAt <= n + buffer
shouldRefresh(t, n, buffer) == t.expiresAt < n + buffer

\* src: request, "if (this.config.autoRefresh && this.tokens && !options.skipAuth)"
autoRefreshes_Always(cfg, t) == t.held
autoRefreshes(cfg, t) == cfg.autoRefresh /\ t.held

\* src: refreshTokenIfNeeded, "if (this.refreshPromise)"
refreshInProgress_Never(marker) == FALSE
refreshInProgress(marker) == marker # 0

\* src: refreshTokenIfNeeded, "finally { this.refreshPromise = null }"
markerAfterSettle_OnSuccessOnly(marker, ok) == IF ok THEN 0 ELSE marker
markerAfterSettle(marker, ok) == 0

\* src: refreshAccessToken, "const tokenToRefresh = refreshToken || this.tokens?.refreshToken"
tokenToRefresh_Default(override, t) == IF override # 0 THEN override ELSE 1
tokenToRefresh(override, t) ==
    IF override # 0 THEN override ELSE IF t.held THEN t.refreshToken ELSE 0

\* src: getAuthHeaders, "if (!this.tokens?.accessToken)"
hasAccessToken_AnyTokens(t) == t.held
hasAccessToken(t) == t.held /\ t.accessToken # 0

\* src: request, "await this.refreshTokenIfNeeded()": a rejection is thrown on
resumesAfter_Swallowed(ok) == TRUE
resumesAfter(ok) == ok

\* src: refreshAccessToken, "this.tokens = { accessToken: data.access_token, ... }"
storedTokens_IfHeld(old, data) == IF old.held THEN data ELSE old
storedTokens_Stale(old, data) == old
storedTokens(old, data) == data

\* src: refreshAccessToken, "await this.config.onTokenRefresh(this.tokens)":
\* a rejection of the callback is thrown on
callbackSettles_Swallowed(ok) == TRUE
callbackSettles(ok) == ok

Awaiting(c) == call[c].pc \in {"awaitOwn", "awaitOther", "awaitDirect"}
Settled(i) == refreshes[i].st \in {"resolved", "rejected"}
\* Token exchanges with the OAuth server that are in flight.
InFlight == {i \in Callers : refreshes[i].st = "fetch"}

\* src: refreshAccessToken, from its call to the await of requestRaw: the
\* promise it returns, either rejected at once or with the exchange sent.
NewRefresh(override) ==
    IF tokenToRefresh(override, tokens) = 0
    THEN [NoRefresh EXCEPT !.st = "rejected", !.err = "TokenRefresh"]
    ELSE [NoRefresh EXCEPT !.st = "fetch", !.sent = 1]

\* src: request, from getAuthHeaders() to the call of fetchWithTimeout: the
\* call fails with a StravaValidationError, or the API request leaves.
SendOrFail(c) ==
    IF hasAccessToken(tokens)
    THEN [call[c] EXCEPT !.pc = "inflight", !.ref = 0, !.sent = @ + 1]
    ELSE [call[c] EXCEPT !.pc = "failed", !.ref = 0, !.err = "Validation"]

\* A settled promise that neither the marker nor an awaiting call refers to
\* is gone.
Collect(rs, cs, marker) ==
    [i \in Callers |->
        IF /\ rs[i].st \in {"resolved", "rejected"}
           /\ marker # i
           /\ \A c \in Callers :
                 ~(cs[c].pc \in {"awaitOwn", "awaitOther", "awaitDirect"} /\ cs[c].ref = i)
        THEN NoRefresh ELSE rs[i]]

\* src: the constants next to the class
DEFAULT_TIMEOUT == 30000
\* undefined, where a number may stand
Undefined == -1
\* What the application passes as config.timeout.
TimeoutInputs == {Undefined, 5000}

\* src: constructor, "timeout: config.timeout ?? DEFAULT_TIMEOUT"
configTimeout(given) == IF given # Undefined THEN given ELSE DEFAULT_TIMEOUT

\* No call in the transport.
\* op is what the call is: "json" (request), "text" (requestText),
\* "deauthorize" or "exchange"; signal is the caller's AbortSignal: "none",
\* "live" or "aborted"; pre tells that it was aborted when the call was
\* made; out is how the call ended; ret is what testConnection returned,
\* "true" or "false"; fires lists, in the order they fired during the call,
\* the caller's signal ("user") and the timeout ("timer").
IdleRq == [pc |-> "idle", op |-> "none", signal |-> "none", pre |-> FALSE,
           out |-> "none", ret |-> "none", fires |-> <<>>]
\* rateLimitInfo = null
NoRateLimit == [held |-> FALSE,
                shortTerm |-> [usage |-> 0, limit |-> 0],
                longTerm |-> [usage |-> 0, limit |-> 0]]

\* A client built without timeout and hooks, and no call in the transport.
PlainTransport ==
    /\ netcfg = [given |-> Undefined, timeout |-> configTimeout(Undefined),
                 onRequest |-> FALSE, onResponse |-> FALSE]
    /\ rq = IdleRq
    /\ fxs = <<>>
    /\ rateLimitInfo = NoRateLimit

\* The requests that may be in flight together, and one not yet sent: its
\* place in the order of sending (sentAt) and of processing (doneAt), and
\* the headers of its response.
Flights == {1, 2}
IdleFlight == [st |-> "idle", sentAt |-> 0, doneAt |-> 0,
               lim |-> [present |-> FALSE, text |-> <<>>],
               use |-> [present |-> FALSE, text |-> <<>>]]

\* No run of the pagination: the mode ("lazy" for paginate consumed by the
\* application, "eager" for paginateAll), the page source (the lengths of
\* its pages) and the page size, the generator's page and hasMore, the
\* length of the page in hand (len) and those of its items not yet yielded
\* (buf), the pages requested
\* (fetches), the items yielded, paginateAll's allItems (all), and where
\* the generator stands (pc).
NoRun == [mode |-> "none", src |-> <<>>, endless |-> FALSE, perPage |-> 0, page |-> 0,
          hasMore |-> FALSE, len |-> 0, buf |-> <<>>, fetches |-> <<>>, yielded |-> <<>>,
          all |-> <<>>, pc |-> "none"]

\* No value has been given to parseStravaError: the value given (input),
\* what it returned (out), and what it returned when given that (again).
NoCls == [input |-> [type |-> "none"], out |-> [type |-> "none"],
          again |-> [type |-> "none"]]

\* No webhook helper has been called: which one (op), what it was given
\* (input, expected), and how it ended (out).
NoHook == [op |-> "none", input |-> [type |-> "none"], expected |-> "",
           out |-> [threw |-> "none", value |-> [type |-> "none"]]]

\* src: constructor, but for this.config
Constructed ==
    /\ webhook = NoHook
    /\ flights = [r \in Flights |-> IdleFlight]
    /\ pg = NoRun
    /\ cls = NoCls
    /\ tokens = NullTokens
    /\ refreshPromise = 0
    /\ refreshes = [c \in Callers |-> NoRefresh]
    /\ call = [c \in Callers |-> IdleCall]
    /\ now = 0
    /\ objs = <<>>
    /\ kind = [c \in Callers |-> "api"]
    /\ asked = [made |-> FALSE, res |-> FALSE]

InitClient ==
    /\ config \in [autoRefresh : BOOLEAN, refreshBuffer : RefreshBuffers]
    /\ Constructed

Init == InitClient /\ PlainTransport

\* this.tokens is assigned an object the calling code holds no reference to
\* (or null): none of its objects is this.tokens any more.
Unstored(os) == [j \in DOMAIN os |-> [os[j] EXCEPT !.stored = FALSE]]

\* src: setTokens, called with an object literal
setTokens(t) ==
    /\ tokens' = t
    /\ objs' = Unstored(objs)
    /\ UNCHANGED <<config, refreshPromise, refreshes, call, now>>
    /\ UNCHANGED aside

\* src: clearTokens
clearTokens ==
    /\ tokens' = NullTokens
    /\ objs' = Unstored(objs)
    /\ UNCHANGED <<config, refreshPromise, refreshes, call, now>>
    /\ UNCHANGED aside

\* The clock advances.
Tick ==
    /\ now < MaxNow
    /\ now' = now + 1
    /\ UNCHANGED <<config, tokens, refreshPromise, refreshes, call, objs>>
    /\ UNCHANGED aside

\* src: request up to its first await (or, when nothing is awaited, up to
\* fetch()), refreshTokenIfNeeded up to its first await, and
\* refreshAccessToken up to the await of the exchange.
Begin(c) ==
    /\ call[c].pc = "idle"
    /\ IF autoRefreshes(config, tokens) /\ shouldRefresh(tokens, now, config.refreshBuffer)
       THEN IF refreshInProgress(refreshPromise)
            THEN \* wait for the refresh under way
                 /\ call' = [call EXCEPT ![c] =
                       [@ EXCEPT !.pc = "awaitOther", !.ref = refreshPromise]]
                 /\ UNCHANGED <<refreshes, refreshPromise>>
            ELSE \* start a refresh and store its promise
                 /\ refreshes' = [refreshes EXCEPT ![c] = NewRefresh(0)]
                 /\ refreshPromise' = c
                 /\ call' = [call EXCEPT ![c] = [@ EXCEPT !.pc = "awaitOwn", !.ref = c]]
       ELSE \* no refresh: on to the headers and fetch()
            /\ call' = [call EXCEPT ![c] = SendOrFail(c)]
            /\ UNCHANGED <<refreshes, refreshPromise>>

\* src: a facade call (request, requestText) begins
StartCall(c) ==
    /\ Begin(c)
    /\ UNCHANGED <<config, tokens, now, objs>>
    /\ UNCHANGED aside

\* src: refreshAccessToken called by the application, with a refresh token
\* of its own or without, up to the await of the exchange
StartRefresh(c, override) ==
    /\ call[c].pc = "idle"
    /\ refreshes' = [refreshes EXCEPT ![c] = NewRefresh(override)]
    /\ call' = [call EXCEPT ![c] =
          [@ EXCEPT !.pc = "awaitDirect", !.ref = c, !.arg = override]]
    /\ UNCHANGED <<config, tokens, refreshPromise, now, objs>>
    /\ UNCHANGED aside

\* src: refreshTokenIfNeeded after "await this.refreshPromise" (the owner
\* clears the marker in its finally, a waiter just returns), then request
\* after "await this.refreshTokenIfNeeded()": a rejection ends the facade
\* call, otherwise the headers are built and the request leaves.
ResumeCall(c) ==
    /\ call[c].pc \in {"awaitOwn", "awaitOther"}
    /\ Settled(call[c].ref)
    /\ LET r == refreshes[call[c].ref]
           ok == r.st = "resolved"
       IN /\ call' = [call EXCEPT ![c] =
                IF resumesAfter(ok) THEN SendOrFail(c)
                ELSE [@ EXCEPT !.pc = "failed", !.ref = 0, !.err = r.err]]
          /\ refreshPromise' = IF call[c].pc = "awaitOwn"
                               THEN markerAfterSettle(refreshPromise, ok)
                               ELSE refreshPromise
          /\ refreshes' = Collect(refreshes, call', refreshPromise')
    /\ UNCHANGED <<config, tokens, now, objs>>
    /\ UNCHANGED aside

\* The application's await of refreshAccessToken() ends: it has the token
\* response, or the error.
ResumeRefresh(c) ==
    /\ call[c].pc = "awaitDirect"
    /\ Settled(c)
    /\ call' = [call EXCEPT ![c] =
          IF refreshes[c].st = "resolved"
          THEN [@ EXCEPT !.pc = "returned", !.ref = 0, !.arg = 0]
          ELSE [@ EXCEPT !.pc = "threw", !.ref = 0, !.arg = 0, !.err = refreshes[c].err]]
    /\ refreshes' = Collect(refreshes, call', refreshPromise)
    /\ UNCHANGED <<config, tokens, refreshPromise, now, objs>>
    /\ UNCHANGED aside

\* src: fetchWithTimeout after "await fetch(...)" for the API request: the
\* parsed response, or the classified error, ends the facade call
CompleteCall(c) ==
    /\ call[c].pc = "inflight"
    /\ kind[c] = "api"
    /\ \E e \in ExchangeErrors \cup {"none"} :
          call' = [call EXCEPT ![c] =
              IF e = "none" THEN [@ EXCEPT !.pc = "done"]
              ELSE [@ EXCEPT !.pc = "failed", !.err = e]]
    /\ UNCHANGED <<config, tokens, refreshPromise, refreshes, now, objs>>
    /\ UNCHANGED aside

\* src: fetchWithTimeout's catch and "if (!response.ok)" for the token
\* exchange: the failure rejects refreshAccessToken's promise
RefreshFails(i) ==
    /\ i \in InFlight
    /\ \E e \in ExchangeErrors :
          refreshes' = [refreshes EXCEPT ![i] = [@ EXCEPT !.st = "rejected", !.err = e]]
    /\ UNCHANGED <<config, tokens, refreshPromise, call, now, objs>>
    /\ UNCHANGED aside

\* src: refreshAccessToken after "await this.requestRaw(...)":
\* "this.tokens = {...}; await this.config.onTokenRefresh(this.tokens)".
\* The callback may throw at once; otherwise its result is awaited.
RefreshStores(i) ==
    /\ i \in InFlight
    /\ \E d \in ServerTokens(i), throws \in BOOLEAN :
          /\ tokens' = storedTokens(tokens, d)
          /\ objs' = Unstored(objs)
          /\ refreshes' = [refreshes EXCEPT ![i] =
                [@ EXCEPT !.data = tokens', !.cb = Append(@, tokens'),
                          !.cbOut = IF throws THEN "threw" ELSE "pending",
                          !.st = IF throws THEN "rejected" ELSE "callback",
                          !.err = IF throws THEN "Callback" ELSE "none"]]
    /\ UNCHANGED <<config, refreshPromise, call, now>>
    /\ UNCHANGED aside

\* src: refreshAccessToken after the await of the callback: "return data",
\* or the callback's rejection thrown on
RefreshCallbackDone(i) ==
    /\ refreshes[i].st = "callback"
    /\ \E ok \in BOOLEAN :
          refreshes' = [refreshes EXCEPT ![i] =
              [@ EXCEPT !.cbOut = IF ok THEN "returned" ELSE "threw",
                        !.st = IF callbackSettles(ok) THEN "resolved" ELSE "rejected",
                        !.err = IF callbackSettles(ok) THEN "none" ELSE "Callback"]]
    /\ UNCHANGED <<config, tokens, refreshPromise, call, now, objs>>
    /\ UNCHANGED aside

Next ==
    \/ \E t \in TokenInputs : setTokens(t)
    \/ clearTokens
    \/ Tick
    \/ \E c \in Callers : StartCall(c)
    \/ \E c \in Callers, o \in {0, 1} : StartRefresh(c, o)
    \/ \E c \in Callers : ResumeCall(c)
    \/ \E c \in Callers : ResumeRefresh(c)
    \/ \E c \in Callers : CompleteCall(c)
    \/ \E i \in Callers : RefreshFails(i)
    \/ \E i \in Callers : RefreshStores(i)
    \/ \E i \in Callers : RefreshCallbackDone(i)

Spec == Init /\ [][Next]_vars

\* Refreshes that have stored their triple and that a call still waits on.
Stored == {i \in Callers : refreshes[i].st \in {"callback", "resolved"}}

\* src: setTokens and clearTokens, called by the application at any time but
\* between a refresh's storing of its triple and the resumption of the calls
\* that wait on it
setTokensOutside(t) == Stored = {} /\ setTokens(t)
clearTokensOutside == Stored = {} /\ clearTokens

\* Facade calls alone, with setTokens and clearTokens kept out of the way of
\* a refresh that has stored its triple.
NextCarry ==
    \/ \E t \in TokenInputs : setTokensOutside(t)
    \/ clearTokensOutside
    \/ Tick
    \/ \E c \in Callers : StartCall(c)
    \/ \E c \in Callers : ResumeCall(c)
    \/ \E c \in Callers : CompleteCall(c)
    \/ \E i \in Callers : RefreshFails(i)
    \/ \E i \in Callers : RefreshStores(i)
    \/ \E i \in Callers : RefreshCallbackDone(i)

SpecCarry == Init /\ [][NextCarry]_vars

\* ------------------------------------------- token objects and references
\* The calling code builds a token object and keeps it.
NewTokens(t) ==
    /\ Len(objs) < MaxObjects
    /\ objs' = Append(objs, [val |-> t, stored |-> FALSE, returned |-> FALSE])
    /\ UNCHANGED <<config, tokens, refreshPromise, refreshes, call, now>>
    /\ UNCHANGED aside

\* src: setTokens, "this.tokens = tokens", called with an object the calling
\* code keeps: this.tokens is that object.
setTokensObject(i) ==
    /\ i \in DOMAIN objs
    /\ tokens' = objs[i].val
    /\ objs' = [j \in DOMAIN objs |-> [objs[j] EXCEPT !.stored = (j = i)]]
    /\ UNCHANGED <<config, refreshPromise, refreshes, call, now>>
    /\ UNCHANGED aside

\* src: getTokens, "return this.tokens ? { ...this.tokens } : null": a new
\* object with the fields of this.tokens
getTokens ==
    /\ tokens.held
    /\ Len(objs) < MaxObjects
    /\ objs' = Append(objs, [val |-> tokens, stored |-> FALSE, returned |-> TRUE])
    /\ UNCHANGED <<config, tokens, refreshPromise, refreshes, call, now>>
    /\ UNCHANGED aside

\* The calling code assigns the fields of an object it holds; when the
\* object is this.tokens, the client's credentials are what was assigned.
Mutate(i, t) ==
    /\ i \in DOMAIN objs
    /\ t # objs[i].val
    /\ objs' = [objs EXCEPT ![i].val = t]
    /\ tokens' = IF objs[i].stored THEN t ELSE tokens
    /\ UNCHANGED <<config, refreshPromise, refreshes, call, now>>
    /\ UNCHANGED aside

NextTokens ==
    \/ \E t \in TokenInputs : NewTokens(t)
    \/ \E t \in TokenInputs : setTokens(t)
    \/ \E i \in 1..MaxObjects : setTokensObject(i)
    \/ getTokens
    \/ \E i \in 1..MaxObjects, t \in TokenInputs : Mutate(i, t)
    \/ clearTokens

SpecTokens == Init /\ [][NextTokens]_vars

\* ------------------------------- authorization, deauthorization, validity
\* src: hasValidTokens
hasValidTokens_NotBefore(t, n) == t.held /\ t.expiresAt >= n
hasValidTokens(t, n) == t.held /\ t.expiresAt > n

\* src: deauthorize, "await this.requestRaw(...); this.clearTokens()": the
\* credentials after the deauthorize request has come back
tokensAfterDeauthorize_Always(t, ok) == NullTokens
tokensAfterDeauthorize(t, ok) == IF ok THEN NullTokens ELSE t

\* src: hasValidTokens, called by the application
AskValid ==
    /\ asked' = [made |-> TRUE, res |-> hasValidTokens(tokens, now)]
    /\ UNCHANGED <<config, tokens, refreshPromise, refreshes, call, now, objs, kind>>
    /\ UNCHANGED <<netVars, extraVars>>

\* src: exchangeAuthorizationCode up to "await this.requestRaw(...)": the
\* token exchange is sent, whatever credentials are held
StartExchange(c) ==
    /\ call[c].pc = "idle"
    /\ call' = [call EXCEPT ![c] = [@ EXCEPT !.pc = "exchanging", !.sent = @ + 1]]
    /\ kind' = [kind EXCEPT ![c] = "exchange"]
    /\ UNCHANGED <<config, tokens, refreshPromise, refreshes, now, objs, asked>>
    /\ UNCHANGED <<netVars, extraVars>>

\* src: exchangeAuthorizationCode after the await: "this.tokens = {...};
\* return data"
ExchangeStores(c) ==
    /\ call[c].pc = "exchanging"
    /\ \E d \in ServerTokens(c) : tokens' = d
    /\ objs' = Unstored(objs)
    /\ call' = [call EXCEPT ![c] = [@ EXCEPT !.pc = "returned"]]
    /\ UNCHANGED <<config, refreshPromise, refreshes, now, kind, asked>>
    /\ UNCHANGED <<netVars, extraVars>>

\* src: exchangeAuthorizationCode, the exchange fails: the error is thrown on
ExchangeFails(c) ==
    /\ call[c].pc = "exchanging"
    /\ \E e \in ExchangeErrors :
          call' = [call EXCEPT ![c] = [@ EXCEPT !.pc = "threw", !.err = e]]
    /\ UNCHANGED <<config, tokens, refreshPromise, refreshes, now, objs, kind, asked>>
    /\ UNCHANGED <<netVars, extraVars>>

\* src: deauthorize up to its first await: the refresh when one is due, or
\* else getAuthHeaders() and the deauthorize request
StartDeauthorize(c) ==
    /\ Begin(c)
    /\ kind' = [kind EXCEPT ![c] = "deauthorize"]
    /\ UNCHANGED <<config, tokens, now, objs, asked>>
    /\ UNCHANGED <<netVars, extraVars>>

\* src: deauthorize after "await this.requestRaw(...)": "this.clearTokens()",
\* or the error of the request thrown on
CompleteDeauthorize(c) ==
    /\ call[c].pc = "inflight"
    /\ kind[c] = "deauthorize"
    /\ \E e \in ExchangeErrors \cup {"none"} :
          /\ call' = [call EXCEPT ![c] =
                IF e = "none" THEN [@ EXCEPT !.pc = "done"]
                ELSE [@ EXCEPT !.pc = "failed", !.err = e]]
          /\ tokens' = tokensAfterDeauthorize(tokens, e = "none")
    /\ objs' = Unstored(objs)
    /\ UNCHANGED <<config, refreshPromise, refreshes, now, kind, asked>>
    /\ UNCHANGED <<netVars, extraVars>>

\* Two callers, whose calls may be any operation of the client.
AuthCallers == {1, 2}

NextAuth ==
    \/ \E t \in TokenInputs : setTokens(t)
    \/ clearTokens
    \/ Tick
    \/ AskValid
    \/ \E c \in AuthCallers : StartCall(c)
    \/ \E c \in AuthCallers, o \in {0, 1} : StartRefresh(c, o)
    \/ \E c \in AuthCallers : StartExchange(c)
    \/ \E c \in AuthCallers : StartDeauthorize(c)
    \/ \E c \in AuthCallers : ResumeCall(c)
    \/ \E c \in AuthCallers : ResumeRefresh(c)
    \/ \E c \in AuthCallers : CompleteCall(c)
    \/ \E c \in AuthCallers : CompleteDeauthorize(c)
    \/ \E c \in AuthCallers : ExchangeStores(c)
    \/ \E c \in AuthCallers : ExchangeFails(c)
    \/ \E i \in AuthCallers : RefreshFails(i)
    \/ \E i \in AuthCallers : RefreshStores(i)
    \/ \E i \in AuthCallers : RefreshCallbackDone(i)

SpecAuth == Init /\ [][NextAuth]_vars

\* ------------------------------------------------------------ the transport
\* Header values are strings, modelled as sequences of characters.
DigitChars == <<"0", "1", "2", "3", "4", "5", "6", "7", "8", "9">>
Digits == {DigitChars[i] : i \in 1..10}
DigitVal(ch) == CHOOSE n \in 0..9 : DigitChars[n + 1] = ch
\* The decimal string of n < 100.
Enc(n) == IF n < 10 THEN <<DigitChars[n + 1]>>
          ELSE <<DigitChars[(n \div 10) + 1], DigitChars[(n % 10) + 1]>>
\* Number(x) of a string that is no number
NaN == -2

RECURSIVE Decimal(_)
Decimal(str) ==
    IF str = <<>> THEN 0
    ELSE Decimal(SubSeq(str, 1, Len(str) - 1)) * 10 + DigitVal(str[Len(str)])

\* src: updateRateLimitInfo, "Number": the empty string is 0, a string of
\* digits its value, anything else NaN
Number(str) ==
    IF \E i \in 1..Len(str) : str[i] \notin Digits THEN NaN ELSE Decimal(str)

\* src: updateRateLimitInfo, ".split(',')"
RECURSIVE Split(_)
Split(str) ==
    IF \A i \in 1..Len(str) : str[i] # ","
    THEN <<str>>
    ELSE LET i == CHOOSE k \in 1..Len(str) :
                      str[k] = "," /\ \A j \in 1..(k - 1) : str[j] # ","
         IN <<SubSeq(str, 1, i - 1)>> \o Split(SubSeq(str, i + 1, Len(str)))

\* src: updateRateLimitInfo, "const [a, b] = header.split(',').map(Number)":
\* the k-th element, undefined when there is none
Field(str, k) ==
    LET parts == Split(str)
    IN IF k <= Len(parts) THEN Number(parts[k]) ELSE Undefined

\* A response header: absent (headers.get gives null), or its text.
NoHeader == [present |-> FALSE, text |-> <<>>]
Header(text) == [present |-> TRUE, text |-> text]
Pair(a, b) == Header(Enc(a) \o <<",">> \o Enc(b))
\* The x-ratelimit-limit and x-ratelimit-usage headers a response may carry:
\* none, or a pair of numbers.
RateNumbers == {1, 12}
RateHeaders == {NoHeader, Pair(1, 12), Pair(12, 1)}

\* src: updateRateLimitInfo, "if (limitHeader && usageHeader)"
bothPresent_Either(lim, use) ==
    \/ lim.present /\ lim.text # <<>>
    \/ use.present /\ use.text # <<>>
bothPresent(lim, use) ==
    /\ lim.present /\ lim.text # <<>>
    /\ use.present /\ use.text # <<>>

\* src: updateRateLimitInfo
updateRateLimitInfo_KeepFirst(old, lim, use) ==
    IF old.held \/ ~bothPresent(lim, use) THEN old
    ELSE [held |-> TRUE,
          shortTerm |-> [usage |-> Field(use.text, 1), limit |-> Field(lim.text, 1)],
          longTerm |-> [usage |-> Field(use.text, 2), limit |-> Field(lim.text, 2)]]
updateRateLimitInfo(old, lim, use) ==
    IF bothPresent(lim, use)
    THEN [held |-> TRUE,
          shortTerm |-> [usage |-> Field(use.text, 1), limit |-> Field(lim.text, 1)],
          longTerm |-> [usage |-> Field(use.text, 2), limit |-> Field(lim.text, 2)]]
    ELSE old

\* src: fetchWithTimeout, "if (!options.skipRateLimit)
\* this.updateRateLimitInfo(response.headers)", which stands before the
\* test of response.ok
processesHeaders_Always(skip, status) == TRUE
processesHeaders_OnSuccess(skip, status) == ~skip /\ status >= 200 /\ status <= 299
processesHeaders(skip, status) == ~skip

\* src: fetchWithTimeout, "const timeout = options.timeout ?? this.config.timeout"
armedTimeout_Default(override, cfgTimeout) == DEFAULT_TIMEOUT
armedTimeout(override, cfgTimeout) ==
    IF override # Undefined THEN override ELSE cfgTimeout

\* The Authorization value "Bearer [REDACTED]"; 0 is no Authorization header,
\* n > 0 the header "Bearer " + access token n.
Redacted == -3
\* src: fetchWithTimeout, "if (safeHeaders.Authorization)
\* safeHeaders.Authorization = 'Bearer [REDACTED]'"
safeHeaders_Plain(auth) == auth
safeHeaders(auth) == IF auth # 0 THEN Redacted ELSE auth

\* src: fetchWithTimeout, the onRequest hook, then fetch()
requestEvents_FetchFirst(hook) ==
    IF hook THEN <<"fetch", "onRequest">> ELSE <<"fetch">>
requestEvents(hook) ==
    IF hook THEN <<"onRequest", "fetch">> ELSE <<"fetch">>

\* src: fetchWithTimeout's catch, "if (isUserAbort) throw error; throw new
\* StravaNetworkError('Request timed out')"
abortOutcome_Network(isUserAbort) == "NetworkTimeout"
abortOutcome(isUserAbort) == IF isUserAbort THEN "AbortError" ELSE "NetworkTimeout"

\* src: "response.ok"
StatusOk(status) == status >= 200 /\ status <= 299
\* The statuses a response may carry.
Statuses == {200, 500}

\* src: fetchWithTimeout from its first line to "await fetch(...)": the
\* timeout armed, the caller's signal looked at and wired, the onRequest
\* hook called with the masked headers, fetch() called. io tells whether
\* fetch() was given a signal not yet aborted, so that network I/O started;
\* cause is what aborted the controller first: "timer" or "user".
OpenFetch(op, skip, auth, sig) ==
    [op |-> op, skip |-> skip,
     timeout |-> armedTimeout(Undefined, netcfg.timeout),
     wired |-> sig = "live",
     isUserAbort |-> sig = "aborted",
     aborted |-> sig = "aborted",
     cause |-> IF sig = "aborted" THEN "user" ELSE "none",
     io |-> sig # "aborted",
     events |-> requestEvents(netcfg.onRequest),
     hookReq |-> IF netcfg.onRequest THEN <<safeHeaders(auth)>> ELSE <<>>,
     hookRes |-> <<>>,
     sentAuth |-> auth,
     st |-> "fetching", status |-> 0, lim |-> NoHeader, use |-> NoHeader,
     out |-> "none"]

\* The timeout of the fetch in flight has elapsed.
TimerFired(r) == \E k \in DOMAIN r.fires : r.fires[k] = "timer"
Fetching == rq.pc \in {"refreshing", "fetching"} /\ fxs[Len(fxs)].st = "fetching"
WithLast(f) == [fxs EXCEPT ![Len(fxs)] = f]
\* src: testConnection, "await this.getAthlete()", and getAthlete, which is
\* request() without a signal: the fetch of a testConnection call is that of
\* a request() call
via(op) == IF op = "test" THEN "json" ELSE op
Ended_GoesOn(out) == [rq EXCEPT !.out = out]
Ended(out) == [rq EXCEPT !.pc = "ended", !.out = out]

\* src: request / requestText / deauthorize up to the first await, with
\* refreshTokenIfNeeded and refreshAccessToken when the credentials are due.
\* One call at a time goes through here, so the marker matters to no one.
StartFacade(op, sig) ==
    /\ rq.pc = "idle"
    /\ LET made == [IdleRq EXCEPT !.op = op, !.signal = sig, !.pre = (sig = "aborted")]
       IN IF autoRefreshes(config, tokens) /\ shouldRefresh(tokens, now, config.refreshBuffer)
          THEN IF tokenToRefresh(0, tokens) = 0
               THEN /\ rq' = [made EXCEPT !.pc = "ended", !.out = "TokenRefresh"]
                    /\ fxs' = <<>>
               ELSE /\ rq' = [made EXCEPT !.pc = "refreshing"]
                    /\ fxs' = <<OpenFetch("refresh", TRUE, 0, "none")>>
          ELSE IF hasAccessToken(tokens)
               THEN /\ rq' = [made EXCEPT !.pc = "fetching"]
                    /\ fxs' = <<OpenFetch(via(op), op = "deauthorize",
                                           tokens.accessToken, sig)>>
               ELSE /\ rq' = [made EXCEPT !.pc = "ended", !.out = "Validation"]
                    /\ fxs' = <<>>
    /\ UNCHANGED <<config, tokens, refreshPromise, refreshes, call, now, objs>>
    /\ UNCHANGED <<authVars, extraVars, netcfg, rateLimitInfo>>

\* src: exchangeAuthorizationCode up to the await of the exchange
StartExchangeCode ==
    /\ rq.pc = "idle"
    /\ rq' = [IdleRq EXCEPT !.op = "exchange", !.pc = "fetching"]
    /\ fxs' = <<OpenFetch("exchange", TRUE, 0, "none")>>
    /\ UNCHANGED <<config, tokens, refreshPromise, refreshes, call, now, objs>>
    /\ UNCHANGED <<authVars, extraVars, netcfg, rateLimitInfo>>

\* The caller aborts its signal. src: fetchWithTimeout, onUserAbort, which
\* listens while the fetch it was wired to has not been aborted.
UserAborts ==
    /\ rq.signal = "live"
    /\ rq.pc \in {"refreshing", "fetching"}
    /\ rq' = [rq EXCEPT !.signal = "aborted", !.fires = Append(@, "user")]
    /\ LET f == fxs[Len(fxs)]
       IN fxs' = IF f.wired /\ f.st = "fetching" /\ ~f.aborted
                 THEN WithLast([f EXCEPT !.isUserAbort = TRUE, !.aborted = TRUE,
                                         !.cause = "user"])
                 ELSE fxs
    /\ UNCHANGED <<config, tokens, refreshPromise, refreshes, call, now, objs>>
    /\ UNCHANGED <<authVars, extraVars, netcfg, rateLimitInfo>>

\* src: fetchWithTimeout, "setTimeout(() => controller.abort(), timeout)":
\* the timeout elapses before the fetch has settled. controller.abort() on
\* a controller the caller's signal has aborted already does nothing.
TimerFires ==
    /\ Fetching
    /\ ~TimerFired(rq)
    /\ rq' = [rq EXCEPT !.fires = Append(@, "timer")]
    /\ LET f == fxs[Len(fxs)]
       IN fxs' = IF ~f.aborted
                 THEN WithLast([f EXCEPT !.aborted = TRUE, !.cause = "timer"])
                 ELSE fxs
    /\ UNCHANGED <<config, tokens, refreshPromise, refreshes, call, now, objs>>
    /\ UNCHANGED <<authVars, extraVars, netcfg, rateLimitInfo>>

\* src: fetchWithTimeout's catch for an AbortError: fetch() rejects once the
\* controller is aborted, and the error ends the call
FetchAborted ==
    /\ Fetching
    /\ fxs[Len(fxs)].aborted
    /\ LET out == abortOutcome(fxs[Len(fxs)].isUserAbort)
       IN /\ fxs' = WithLast([fxs[Len(fxs)] EXCEPT !.st = "failed", !.out = out])
          /\ rq' = Ended(out)
    /\ UNCHANGED <<config, tokens, refreshPromise, refreshes, call, now, objs>>
    /\ UNCHANGED <<authVars, extraVars, netcfg, rateLimitInfo>>

\* src: fetchWithTimeout's catch for a TypeError of fetch(): unreachable
FetchUnreachable ==
    /\ Fetching
    /\ ~fxs[Len(fxs)].aborted
    /\ fxs' = WithLast([fxs[Len(fxs)] EXCEPT !.st = "failed",
                                             !.out = "NetworkUnreachable"])
    /\ rq' = Ended("NetworkUnreachable")
    /\ UNCHANGED <<config, tokens, refreshPromise, refreshes, call, now, objs>>
    /\ UNCHANGED <<authVars, extraVars, netcfg, rateLimitInfo>>

\* src: fetchWithTimeout's catch, "throw error": fetch() rejects with an
\* error that is no AbortError and no TypeError whose message has "fetch"
\* in it, and the error is thrown on as it is
FetchThrows ==
    /\ Fetching
    /\ ~fxs[Len(fxs)].aborted
    /\ fxs' = WithLast([fxs[Len(fxs)] EXCEPT !.st = "failed", !.out = "TypeError"])
    /\ rq' = Ended("TypeError")
    /\ UNCHANGED <<config, tokens, refreshPromise, refreshes, call, now, objs>>
    /\ UNCHANGED <<authVars, extraVars, netcfg, rateLimitInfo>>

\* src: refreshAccessToken, "await this.config.onTokenRefresh(this.tokens)",
\* noted among the events of the refresh's fetch
Notified(f) == [f EXCEPT !.events = Append(@, "onTokenRefresh")]

\* src: fetchWithTimeout after "await fetch(...)": the onResponse hook, the
\* rate-limit snapshot unless skipRateLimit, then the classified error of a
\* non-success response thrown, or the parsed response returned; and what
\* the caller of fetchWithTimeout does with it: refreshAccessToken stores
\* the triple and the call goes on to its own request, deauthorize clears
\* the credentials, exchangeAuthorizationCode stores the triple.
FetchResponds(status, lim, use) ==
    /\ Fetching
    /\ ~fxs[Len(fxs)].aborted
    /\ LET f == fxs[Len(fxs)]
           ok == StatusOk(status)
           g == [f EXCEPT !.status = status, !.lim = lim, !.use = use,
                          !.events = IF netcfg.onResponse
                                     THEN Append(@, "onResponse") ELSE @,
                          !.hookRes = IF netcfg.onResponse
                                      THEN Append(@, status) ELSE @,
                          !.st = IF ok THEN "done" ELSE "failed",
                          !.out = IF ok THEN "ok" ELSE "Http"]
       IN /\ rateLimitInfo' = IF processesHeaders(f.skip, status)
                              THEN updateRateLimitInfo(rateLimitInfo, lim, use)
                              ELSE rateLimitInfo
          /\ IF ~ok
             THEN /\ fxs' = WithLast(g)
                  /\ rq' = Ended("Http")
                  /\ UNCHANGED <<tokens, objs>>
             ELSE IF f.op = "refresh"
             THEN /\ \E d \in ServerTokens(1) : tokens' = storedTokens(tokens, d)
                  /\ objs' = Unstored(objs)
                  /\ IF hasAccessToken(tokens')
                     THEN /\ fxs' = Append(WithLast(Notified(g)),
                                 OpenFetch(via(rq.op), rq.op = "deauthorize",
                                           tokens'.accessToken, rq.signal))
                          /\ rq' = [rq EXCEPT !.pc = "fetching"]
                     ELSE /\ fxs' = WithLast(Notified(g))
                          /\ rq' = Ended("Validation")
             ELSE /\ fxs' = WithLast(g)
                  /\ rq' = Ended("ok")
                  /\ tokens' = IF f.op = "exchange" THEN CHOOSE d \in ServerTokens(1) : TRUE
                               ELSE IF f.op = "deauthorize" THEN NullTokens
                               ELSE tokens
                  /\ objs' = IF f.op \in {"exchange", "deauthorize"}
                             THEN Unstored(objs) ELSE objs
    /\ UNCHANGED <<config, refreshPromise, refreshes, call, now>>
    /\ UNCHANGED <<authVars, extraVars, netcfg>>

\* src: testConnection, "try { await this.getAthlete(); return true; }
\* catch { return false; }"
testConnection_Always(out) == "true"
testConnection(out) == IF out = "ok" THEN "true" ELSE "false"

\* src: testConnection after getAthlete() has settled
TestConnectionReturns ==
    /\ rq.op = "test"
    /\ rq.pc = "ended"
    /\ rq.ret = "none"
    /\ rq' = [rq EXCEPT !.ret = testConnection(rq.out)]
    /\ UNCHANGED <<config, tokens, refreshPromise, refreshes, call, now, objs>>
    /\ UNCHANGED <<authVars, extraVars, netcfg, fxs, rateLimitInfo>>

\* The call is over; the next one may come.
ResetRq ==
    /\ rq.pc = "ended"
    /\ rq.op = "test" => rq.ret # "none"
    /\ rq' = IdleRq
    /\ fxs' = <<>>
    /\ UNCHANGED <<config, tokens, refreshPromise, refreshes, call, now, objs>>
    /\ UNCHANGED <<authVars, extraVars, netcfg, rateLimitInfo>>

\* src: constructor: the client built with or without a timeout, with or
\* without the hooks
InitTransport ==
    /\ InitClient
    /\ netcfg \in {[given |-> g, timeout |-> configTimeout(g),
                     onRequest |-> a, onResponse |-> b] :
                        g \in TimeoutInputs, a \in BOOLEAN, b \in BOOLEAN}
    /\ rq = IdleRq
    /\ fxs = <<>>
    /\ rateLimitInfo = NoRateLimit

\* request() alone takes a signal.
Signals(op) == IF op = "json" THEN {"none", "live", "aborted"} ELSE {"none"}

NextTransport ==
    \/ \E t \in TokenInputs : setTokens(t)
    \/ clearTokens
    \/ \E op \in {"json", "text", "deauthorize", "test"} :
          \E sig \in Signals(op) : StartFacade(op, sig)
    \/ StartExchangeCode
    \/ TestConnectionReturns
    \/ UserAborts
    \/ TimerFires
    \/ FetchAborted
    \/ FetchUnreachable
    \/ FetchThrows
    \/ \E status \in Statuses, lim \in RateHeaders, use \in RateHeaders :
          FetchResponds(status, lim, use)
    \/ ResetRq

SpecTransport == InitTransport /\ [][NextTransport]_vars

\* ------------------------------------------- requests in flight together
\* The header values a server may send: none, the empty string, two numbers,
\* and one word that is no number.
WireHeaders == {NoHeader, Header(<<>>), Pair(1, 12), Pair(12, 1), Header(<<"a">>)}

HowMany(st) == Cardinality({r \in Flights : flights[r].st \in st})

\* src: fetchWithTimeout up to "await fetch(...)", for a call whose headers
\* are processed (not flagged skipRateLimit)
SendRequest(r) ==
    /\ flights[r].st = "idle"
    /\ flights' = [flights EXCEPT ![r] = [@ EXCEPT !.st = "inflight",
                        !.sentAt = HowMany({"inflight", "done"}) + 1]]
    /\ UNCHANGED <<notRate, netVars>>

\* src: fetchWithTimeout from the return of "await fetch(...)" to
\* "this.updateRateLimitInfo(response.headers)": no await lies between, so
\* the response of one request is processed in one step
ResponseArrives(r, lim, use) ==
    /\ flights[r].st = "inflight"
    /\ flights' = [flights EXCEPT ![r] = [@ EXCEPT !.st = "done",
                        !.doneAt = HowMany({"done"}) + 1,
                        !.lim = lim, !.use = use]]
    /\ rateLimitInfo' = updateRateLimitInfo(rateLimitInfo, lim, use)
    /\ UNCHANGED <<notRate, netcfg, rq, fxs>>

\* All the requests are over; the application goes on to further ones.
NextBatch ==
    /\ \A r \in Flights : flights[r].st = "done"
    /\ flights' = [r \in Flights |-> IdleFlight]
    /\ UNCHANGED <<notRate, netVars>>

NextRate ==
    \/ \E r \in Flights : SendRequest(r)
    \/ \E r \in Flights, lim \in WireHeaders, use \in WireHeaders :
          ResponseArrives(r, lim, use)
    \/ NextBatch

SpecRate == Init /\ [][NextRate]_vars

\* ------------------------------------------------------------- pagination
\* A page source is told by the lengths of its pages; the pages after those
\* are empty. The items of page k are numbered 10k+1, 10k+2, ...
PageSources == UNION {[1..n -> 0..MaxPerPage] : n \in 0..MaxPages}
PageSizes == 1..MaxPerPage
\* What fetchPage(k, perPage) resolves to.
PageOf(src, k) ==
    IF k \in DOMAIN src THEN [i \in 1..src[k] |-> 10 * k + i] ELSE <<>>

\* What fetchPage(g.page, g.perPage) resolves to in run g: the page of its
\* source; past the pages told, a source that is endless gives full pages.
Fetched(g) ==
    IF g.endless /\ g.page \notin DOMAIN g.src
    THEN [i \in 1..g.perPage |-> 10 * g.page + i]
    ELSE PageOf(g.src, g.page)
\* What a run requests and yields is recorded for this many pages, which are
\* more than a source that ends has; on an endless source the run goes on
\* past them, its page counter, requests and items no longer told apart.
FetchCap == MaxPages + 1
Recorded(g) == g.page <= FetchCap

\* src: paginate, "if (items.length < perPage) hasMore = false", after a
\* page that is not empty
hasMoreAfter_Longer(len, perPage) == len > perPage
hasMoreAfter_Always(len, perPage) == TRUE
hasMoreAfter(len, perPage) == ~(len < perPage)

\* src: paginate, "yield item": the generator stands still until the
\* consumer pulls again; no page is requested meanwhile
fetchesAtYield_Ahead(fetches, page, buf) ==
    IF buf = <<>> THEN Append(fetches, page + 1) ELSE fetches
fetchesAtYield(fetches, page, buf) == fetches

\* src: paginateAll, "allItems.push(item)"
pushed_Front(all, item) == <<item>> \o all
pushed(all, item) == Append(all, item)

\* src: paginate, "for (const item of items) yield item": the generator
\* yields the first item of buf, which is not empty
Yields(g, buf) ==
    [g EXCEPT !.yielded = IF Recorded(g) THEN Append(@, Head(buf)) ELSE @,
              !.buf = Tail(buf),
              !.fetches = fetchesAtYield(@, g.page, Tail(buf)),
              !.pc = "suspended"]

\* src: paginate, after the for loop: "page++; if (items.length < perPage)
\* hasMore = false"
AfterPage(g) ==
    [g EXCEPT !.page = IF Recorded(g) THEN @ + 1 ELSE @,
              !.hasMore = hasMoreAfter(g.len, g.perPage)]

\* src: paginate, the while loop from its test to "await fetchPage(page,
\* perPage)", or to the end of the generator
Loops(g) ==
    IF g.hasMore
    THEN [g EXCEPT !.fetches = IF Recorded(g) THEN Append(@, g.page) ELSE @,
                   !.pc = "fetching"]
    ELSE [g EXCEPT !.pc = "done"]

\* src: paginate, created by the application: no code of the generator runs
\* before the first pull
StartLazy(src, perPage) ==
    /\ pg.mode = "none"
    /\ pg' = [NoRun EXCEPT !.mode = "lazy", !.src = src, !.perPage = perPage,
                           !.page = 1, !.hasMore = TRUE, !.pc = "created"]
    /\ UNCHANGED notPages

\* src: paginateAll up to its first await: the generator is created and
\* pulled, and requests page 1
StartEager(src, perPage) ==
    /\ pg.mode = "none"
    /\ pg' = Loops([NoRun EXCEPT !.mode = "eager", !.src = src, !.perPage = perPage,
                                 !.page = 1, !.hasMore = TRUE])
    /\ UNCHANGED notPages

\* The consumer pulls the next element: the application's for await, or
\* paginateAll's, which has pushed the item it was handed. The generator
\* goes on from where it stood: to the next item of the page in hand, or
\* past the for loop to the next request or to its end.
Pull ==
    /\ pg.pc \in {"created", "suspended"}
    /\ LET g == [pg EXCEPT !.all = IF /\ pg.mode = "eager" /\ pg.pc = "suspended"
                                       /\ Recorded(pg)
                                    THEN pushed(@, pg.yielded[Len(pg.yielded)])
                                    ELSE @]
       IN pg' = IF g.buf # <<>> THEN Yields(g, g.buf)
                ELSE IF g.pc = "suspended" THEN Loops(AfterPage(g))
                ELSE Loops(g)
    /\ UNCHANGED notPages

\* src: paginate after "await fetchPage(page, perPage)": an empty page ends
\* the loop; of another the first item is yielded
PageArrives ==
    /\ pg.pc = "fetching"
    /\ LET items == Fetched(pg)
       IN pg' = IF Len(items) = 0
                THEN [pg EXCEPT !.hasMore = FALSE, !.pc = "done"]
                ELSE Yields([pg EXCEPT !.len = Len(items)], items)
    /\ UNCHANGED notPages

\* src: paginate, "await fetchPage(page, perPage)" rejects: the generator
\* throws what fetchPage threw
PageFails ==
    /\ pg.pc = "fetching"
    /\ pg' = [pg EXCEPT !.pc = "threw"]
    /\ UNCHANGED notPages

\* The application leaves its for await (break): the generator is returned
\* at the yield it stands at and runs no further
StopPulling ==
    /\ pg.mode = "lazy"
    /\ pg.pc = "suspended"
    /\ pg' = [pg EXCEPT !.pc = "returned"]
    /\ UNCHANGED notPages

NextPages ==
    \/ \E src \in PageSources, perPage \in PageSizes : StartLazy(src, perPage)
    \/ \E src \in PageSources, perPage \in PageSizes : StartEager(src, perPage)
    \/ Pull
    \/ PageArrives
    \/ PageFails
    \/ StopPulling

SpecPages == Init /\ [][NextPages]_vars

\* src: paginate created and drained by for await, or paginateAll called, on
\* a source that ends or is endless
StartDrain(mode, src, perPage, endless) ==
    /\ pg.mode = "none"
    /\ LET g == [NoRun EXCEPT !.mode = mode, !.src = src, !.endless = endless,
                              !.perPage = perPage, !.page = 1, !.hasMore = TRUE]
       IN pg' = IF mode = "lazy" THEN [g EXCEPT !.pc = "created"] ELSE Loops(g)
    /\ UNCHANGED notPages

NextDrain ==
    \/ \E mode \in {"lazy", "eager"}, src \in PageSources, perPage \in PageSizes,
          endless \in BOOLEAN : StartDrain(mode, src, perPage, endless)
    \/ Pull
    \/ PageArrives

\* Runs that are drained: the consumer, for await of the application or of
\* paginateAll, pulls whenever the generator has yielded, and the page that
\* was requested comes.
SpecDrain == Init /\ [][NextDrain]_vars /\ WF_vars(Pull) /\ WF_vars(PageArrives)

\* ------------------------------------------------------ the error taxonomy
\* A StravaError: the instance (id), its class and code, its statusCode
\* (Undefined when it has none), its message, and for a StravaRateLimitError
\* retryAfter, limit and usage. Messages and header values are sequences of
\* characters and words.
StravaError(id, class, code, statusCode, message) ==
    [type |-> "StravaError", id |-> id, class |-> class, code |-> code,
     statusCode |-> statusCode, message |-> message,
     retryAfter |-> Undefined, limit |-> NoHeader, usage |-> NoHeader]

\* src: the constructors of the error classes
StravaAuthenticationError(id, message) ==
    StravaError(id, "StravaAuthenticationError", "STRAVA_AUTH_ERROR", 401, message)
StravaAuthorizationError(id, message) ==
    StravaError(id, "StravaAuthorizationError", "STRAVA_AUTHORIZATION_ERROR", 403, message)
StravaNotFoundError(id, message) ==
    StravaError(id, "StravaNotFoundError", "STRAVA_NOT_FOUND", 404, message)
StravaValidationError(id, message) ==
    StravaError(id, "StravaValidationError", "STRAVA_VALIDATION_ERROR", 400, message)
StravaNetworkError(id, message) ==
    StravaError(id, "StravaNetworkError", "STRAVA_NETWORK_ERROR", Undefined, message)
StravaApiError(id, message, statusCode) ==
    StravaError(id, "StravaApiError", "STRAVA_API_ERROR", statusCode, message)
StravaRateLimitError(id, message, retryAfter, limit, usage) ==
    [StravaError(id, "StravaRateLimitError", "STRAVA_RATE_LIMIT", 429, message)
        EXCEPT !.retryAfter = retryAfter, !.limit = limit, !.usage = usage]

\* src: parseInt: the number its leading digits write, NaN when it has none
RECURSIVE LeadingDigits(_)
LeadingDigits(str) ==
    IF str = <<>> \/ Head(str) \notin Digits THEN <<>>
    ELSE <<Head(str)>> \o LeadingDigits(Tail(str))
parseInt(str) ==
    IF LeadingDigits(str) = <<>> THEN NaN ELSE Decimal(LeadingDigits(str))

\* src: String(value)
String(v) ==
    CASE v.type = "string" -> v.text
      [] v.type = "number" -> Enc(v.n)
      [] v.type = "null" -> <<"null">>
      [] OTHER -> <<"[object Object]">>

\* src: parseStravaError, "data?.message || `Request failed with status
\* ${status}`"
messageOf(r) ==
    IF r.message # <<>> THEN r.message
    ELSE <<"Request failed with status ">> \o <<r.status>>

\* src: parseStravaError, "if (status >= 500)"
isServerError_Only500(status) == status = 500
isServerError(status) == status >= 500

\* src: parseStravaError, "if (error instanceof StravaError) return error"
passThrough_Copy(err, id) == [err EXCEPT !.id = id]
passThrough(err, id) == err

\* src: parseStravaError, for a response
parseResponseError(r, id) ==
    LET message == messageOf(r)
    IN IF r.status = 429
       THEN StravaRateLimitError(id, message,
                IF r.retryAfter.present /\ r.retryAfter.text # <<>>
                THEN parseInt(r.retryAfter.text) ELSE Undefined,
                r.limit, r.usage)
       ELSE IF r.status = 401 THEN StravaAuthenticationError(id, message)
       ELSE IF r.status = 403 THEN StravaAuthorizationError(id, message)
       ELSE IF r.status = 404 THEN StravaNotFoundError(id, message)
       ELSE IF r.status = 400 THEN StravaValidationError(id, message)
       ELSE IF isServerError(r.status) THEN StravaApiError(id, message, r.status)
       ELSE StravaError(id, "StravaError", "STRAVA_HTTP_ERROR", r.status,
                        IF r.context # <<>> THEN r.context \o <<": ">> \o message
                        ELSE message)

\* src: parseStravaError; id is the instance a "new" in it makes
parseStravaError(error, id) ==
    IF error.type = "StravaError" THEN passThrough(error, id)
    ELSE IF error.type = "response" THEN parseResponseError(error, id)
    ELSE IF error.type = "Error"
    THEN StravaError(id, "StravaError", "STRAVA_ERROR", Undefined, error.message)
    ELSE StravaError(id, "StravaError", "STRAVA_UNKNOWN_ERROR", Undefined, String(error))

\* What parseStravaError may be given. Responses (isStravaErrorResponse: a
\* number as status, Headers as headers):
ErrorStatuses == {400, 401, 403, 404, 418, 429, 500, 503}
Messages == {<<>>, <<"Invalid token">>}
Contexts == {<<>>, <<"Deauthorize">>}
RetryAfters == {NoHeader, Header(<<>>), Header(Enc(12)), Header(<<"a">>)}
RawHeaders == {NoHeader, Pair(1, 12)}
Responses ==
    {[type |-> "response", status |-> st, message |-> m, context |-> c,
      retryAfter |-> ra, limit |-> l, usage |-> u] :
        st \in ErrorStatuses, m \in Messages, c \in Contexts,
        ra \in RetryAfters, l \in RawHeaders, u \in RawHeaders}
\* errors of the taxonomy, made before (instance 1):
Classified ==
    {StravaAuthenticationError(1, <<"Original">>),
     StravaNetworkError(1, <<"Request timed out">>),
     StravaApiError(1, <<"Service unavailable">>, 503),
     StravaError(1, "StravaError", "STRAVA_ERROR", Undefined, <<"Original">>)}
\* exceptions that are no StravaError, and other values:
Foreign ==
    {[type |-> "Error", message |-> <<"Something went wrong">>],
     [type |-> "string", text |-> <<"string error">>],
     [type |-> "number", n |-> 12],
     [type |-> "null"],
     [type |-> "object"]}
ErrorInputs == Responses \cup Classified \cup Foreign

\* parseStravaError(input)
Classify(input) ==
    /\ cls.input.type = "none"
    /\ cls' = [cls EXCEPT !.input = input, !.out = parseStravaError(input, 2)]
    /\ UNCHANGED notErrors

\* parseStravaError of what parseStravaError returned
ClassifyAgain ==
    /\ cls.out.type # "none"
    /\ cls.again.type = "none"
    /\ cls' = [cls EXCEPT !.again = parseStravaError(cls.out, 3)]
    /\ UNCHANGED notErrors

NextErrors ==
    \/ \E input \in ErrorInputs : Classify(input)
    \/ ClassifyAgain

SpecErrors == Init /\ [][NextErrors]_vars

\* ------------------------------------------- validity and need of refresh
\* src: constructor, "refreshBuffer: config.refreshBuffer ??
\* DEFAULT_REFRESH_BUFFER": the buffers a client may be built with, none
\* among them
DueBuffers == {0, 1, 2}
\* The triples given to setTokens: usable ones, expiring at every instant of
\* the clock and beyond.
DueTokens == {Tok(1, 1, e) : e \in 0..Far}

InitDue ==
    /\ config \in [autoRefresh : BOOLEAN, refreshBuffer : DueBuffers]
    /\ Constructed
    /\ PlainTransport

NextDue ==
    \/ \E t \in DueTokens : setTokens(t)
    \/ clearTokens
    \/ Tick
    \/ \E c \in Callers : StartCall(c)

SpecDue == InitDue /\ [][NextDue]_vars

\* ------------------------------------------------------ the webhook helpers
\* A JavaScript value met in a webhook body: a string, a number (written by
\* its digits), or undefined, which is also what reading a missing property
\* gives.
Str(s) == [t |-> "string", v |-> s]
Num(s) == [t |-> "number", v |-> s]
Undef == [t |-> "undefined", v |-> ""]
\* src: "typeof x"
typeof(x) == x.t

\* src: StravaWebhookEvent, the fields parseWebhookEvent looks at
EventFields == {"object_type", "object_id", "aspect_type", "owner_id",
                "subscription_id", "event_time"}
\* src: parseWebhookEvent, "validObjectTypes" and "validAspectTypes"
validObjectTypes == {"activity", "athlete"}
validAspectTypes == {"create", "update", "delete"}

\* The values a payload may be: null, undefined, a number, a string, or an
\* object whose properties are strings, numbers, or missing.
Primitive(type) == [type |-> type, fields |-> [f \in EventFields |-> Undef]]
ObjectTypeValues == {Undef, Str("activity"), Str("athlete"), Str("club"), Num("1")}
AspectTypeValues == {Undef, Str("create"), Str("update"), Str("delete"), Str("merge"),
                     Num("1")}
NumberValues == {Undef, Num("1"), Str("1")}
Payloads ==
    {Primitive(type) : type \in {"null", "undefined", "number", "string"}}
    \cup {[type |-> "object",
           fields |-> [object_type |-> a, object_id |-> b, aspect_type |-> c,
                       owner_id |-> d, subscription_id |-> e, event_time |-> g]] :
             a \in ObjectTypeValues, b \in NumberValues, c \in AspectTypeValues,
             d \in NumberValues, e \in NumberValues, g \in NumberValues}

\* How a helper ends: with a value returned, or with an error thrown.
Returned(value) == [threw |-> "none", value |-> value]
Threw(error) == [threw |-> error, value |-> [type |-> "none"]]

\* src: parseWebhookEvent. Reading a property of null or undefined throws a
\* TypeError; reading one of a number or a string gives undefined.
parseWebhookEvent(payload) ==
    IF payload.type \in {"null", "undefined"}
    THEN Threw("TypeError")
    ELSE LET event == payload.fields
         IN IF \/ typeof(event.object_type) # "string"
               \/ typeof(event.object_id) # "number"
               \/ typeof(event.aspect_type) # "string"
               \/ typeof(event.owner_id) # "number"
               \/ typeof(event.subscription_id) # "number"
               \/ typeof(event.event_time) # "number"
            THEN Threw("Validation")
            ELSE IF event.object_type.v \notin validObjectTypes
            THEN Threw("Validation")
            ELSE IF event.aspect_type.v \notin validAspectTypes
            THEN Threw("Validation")
            ELSE Returned(payload)

\* src: StravaWebhookVerificationRequest: the three query parameters
HubModes == {"subscribe", "unsubscribe"}
VerifyTokens == {"secret", "guess"}
Challenges == {"c1", "c2"}
VerificationRequests ==
    {[type |-> "object", mode |-> m, challenge |-> c, verify_token |-> v] :
        m \in HubModes, c \in Challenges, v \in VerifyTokens}
\* src: "return null"
Null == [type |-> "null"]

\* src: validateWebhookVerification
validateWebhookVerification_ModeOnly(request, expectedVerifyToken) ==
    IF request.mode = "subscribe"
    THEN Returned([type |-> "string", text |-> request.challenge])
    ELSE Returned(Null)
validateWebhookVerification(request, expectedVerifyToken) ==
    IF request.mode = "subscribe" /\ request.verify_token = expectedVerifyToken
    THEN Returned([type |-> "string", text |-> request.challenge])
    ELSE Returned(Null)

\* validateWebhookVerification(request, expectedVerifyToken)
Verify(request, expectedVerifyToken) ==
    /\ webhook.op = "none"
    /\ webhook' = [op |-> "verify", input |-> request, expected |-> expectedVerifyToken,
                out |-> validateWebhookVerification(request, expectedVerifyToken)]
    /\ UNCHANGED notWebhook

\* parseWebhookEvent(payload)
Parse(payload) ==
    /\ webhook.op = "none"
    /\ webhook' = [op |-> "parse", input |-> payload, expected |-> "",
                out |-> parseWebhookEvent(payload)]
    /\ UNCHANGED notWebhook

NextWebhook ==
    \/ \E request \in VerificationRequests, expected \in VerifyTokens :
          Verify(request, expected)
    \/ \E payload \in Payloads : Parse(payload)

SpecWebhook == Init /\ [][NextWebhook]_vars

\* ------------------------------------------------- steps the claims speak of
\* The credentials are due and a facade call refreshes them first.
Due ==
    /\ config.autoRefresh
    /\ tokens.held
    /\ tokens.expiresAt < now + config.refreshBuffer

\* Caller c's facade call takes its first step.
FacadeStarts(c) ==
    /\ call[c].pc = "idle"
    /\ call'[c].pc \in {"awaitOwn", "awaitOther", "inflight", "failed"}

\* Caller c's facade call resumes from its await of a refresh.
FacadeResumes(c) ==
    /\ call[c].pc \in {"awaitOwn", "awaitOther"}
    /\ call'[c].pc \notin {"awaitOwn", "awaitOther"}

\* Caller c calls refreshAccessToken().
RefreshStarts(c) ==
    /\ call[c].pc = "idle"
    /\ call'[c].pc = "awaitDirect"

\* Caller c's facade call waits for a refresh that has not settled.
WaitsOnOpen(c) ==
    /\ call[c].pc \in {"awaitOwn", "awaitOther"}
    /\ ~Settled(call[c].ref)

\* Caller c's await of refreshAccessToken() ends.
RefreshResumes(c) ==
    /\ call[c].pc = "awaitDirect"
    /\ call'[c].pc # "awaitDirect"

C2_OneExchangeInFlight == Cardinality(InFlight) <= 1

C4_NoRefreshWhenNotDue ==
    [][\A c \in Callers :
          /\ FacadeStarts(c)
          /\ (~tokens.held \/ tokens.expiresAt >= now + config.refreshBuffer)
          => /\ refreshes' = refreshes
             /\ refreshPromise' = refreshPromise
             /\ tokens' = tokens
             /\ call'[c].pc \in {"inflight", "failed"}]_vars

\* With auto-refresh on and expiresAt equal to now + refreshBuffer, a facade
\* call has sent its API request and no refresh exists.
C4_Witness ==
    \E c \in Callers :
        /\ call[c].pc = "inflight"
        /\ config.autoRefresh
        /\ tokens.held
        /\ tokens.expiresAt = now + config.refreshBuffer
        /\ refreshPromise = 0
        /\ \A i \in Callers : refreshes[i].st = "none"

\* C5: a facade call that resumes from a rejected refresh fails with that
\* refresh's error, has sent no API request, starts no further refresh, and
\* a failed call takes no further step.
C5_RefreshFailureEndsCall ==
    /\ [][\A c \in Callers :
            FacadeResumes(c) /\ refreshes[call[c].ref].st = "rejected" =>
                /\ call'[c].pc = "failed"
                /\ call'[c].err = refreshes[call[c].ref].err
                /\ call'[c].sent = 0
                /\ \A i \in Callers : refreshes'[i].st \in {refreshes[i].st, "none"}]_vars
    /\ [][\A c \in Callers : call[c].pc = "failed" => call'[c] = call[c]]_vars

\* A facade call has failed with the error of the refresh, no request sent.
C5_Witness ==
    \E c \in Callers :
        /\ call[c].pc = "failed"
        /\ call[c].err \in {"Http", "Network", "TokenRefresh", "Callback"}
        /\ call[c].sent = 0

C7_FailedRefreshKeepsTokens ==
    \A i \in Callers : refreshes[i].st = "rejected" => ~refreshes[i].data.held

\* C8: a refresh whose exchange succeeded has stored the new triple and
\* invoked onTokenRefresh once, with that triple, in the same step as the
\* store; a refresh whose exchange has not succeeded has not invoked it; the
\* refresh resolves only after the callback has returned; a callback that
\* threw or rejected leaves the refresh rejected with the callback's error,
\* and that error ends the refreshAccessToken() call and every facade call
\* waiting on the refresh.
C8_StoreThenCallback ==
    /\ [](\A i \in Callers :
            LET r == refreshes[i]
            IN /\ (r.st \in {"callback", "resolved"} \/ r.err = "Callback") =>
                     r.data.held /\ r.cb = <<r.data>>
               /\ (r.st = "fetch" \/ (r.st = "rejected" /\ r.err # "Callback")) =>
                     r.cb = <<>>
               /\ r.st = "callback" => r.cbOut = "pending"
               /\ r.st = "resolved" => r.cbOut = "returned"
               /\ r.cbOut = "threw" => r.st = "rejected" /\ r.err = "Callback")
    /\ [][\A i \in Callers : refreshes[i].st = "fetch" /\ refreshes'[i].cb # <<>> =>
            /\ tokens' \in ServerTokens(i)
            /\ refreshes'[i].data = tokens'
            /\ refreshes'[i].cb = <<tokens'>>]_vars
    /\ [][\A c \in Callers :
            /\ FacadeResumes(c) \/ RefreshResumes(c)
            /\ refreshes[call[c].ref].err = "Callback"
            => /\ call'[c].pc \in {"failed", "threw"}
               /\ call'[c].err = "Callback"
               /\ call'[c].sent = 0]_vars

\* One call has ended with the error of the callback; another refresh has
\* resolved after storing its triple and handing it to the callback once.
C8_Witness ==
    \E c, i \in Callers :
        /\ call[c].pc \in {"failed", "threw"}
        /\ call[c].err = "Callback"
        /\ refreshes[i].st = "resolved"
        /\ refreshes[i].cb = <<tokens>>
        /\ refreshes[i].data = tokens

\* C9: refreshAccessToken() called without a refresh token while none is
\* stored (no credentials, or an empty refresh token) is rejected at once
\* with a TokenRefresh error: no exchange is sent, the callback is not
\* invoked, credentials, marker and the other refreshes stay as they are,
\* and the caller gets that error.
C9_NoRefreshTokenFailsFast ==
    /\ [][\A c \in Callers :
            /\ RefreshStarts(c)
            /\ call'[c].arg = 0
            /\ (~tokens.held \/ tokens.refreshToken = 0)
            => /\ refreshes'[c].st = "rejected"
               /\ refreshes'[c].err = "TokenRefresh"
               /\ refreshes'[c].sent = 0
               /\ refreshes'[c].cb = <<>>
               /\ tokens' = tokens
               /\ refreshPromise' = refreshPromise
               /\ \A i \in Callers \ {c} : refreshes'[i] = refreshes[i]]_vars
    /\ [][\A c \in Callers :
            RefreshResumes(c) /\ refreshes[c].err = "TokenRefresh" =>
                /\ call'[c].pc = "threw"
                /\ call'[c].err = "TokenRefresh"
                /\ tokens' = tokens]_vars

\* A call of refreshAccessToken() has ended with the TokenRefresh error
\* while the stored refresh token is empty.
C9_Witness ==
    \E c \in Callers :
        /\ call[c].pc = "threw"
        /\ call[c].err = "TokenRefresh"
        /\ tokens.held
        /\ tokens.refreshToken = 0

\* C10: setTokens(x) makes the credentials equal to x, which is what a
\* getTokens() then returns; and no assignment to an object that getTokens()
\* returned changes the credentials, hence what a later getTokens() returns.
C10_GetTokensIsolated ==
    [][\A i \in DOMAIN objs :
          /\ (~objs[i].stored /\ objs'[i].stored => tokens' = objs[i].val)
          /\ (objs[i].returned /\ objs'[i].val # objs[i].val => tokens' = tokens)]_vars

\* The step is a setTokens or a clearTokens: no call and no refresh moves.
OnlyTokensChange == UNCHANGED <<refreshes, refreshPromise, call, kind, asked, now>>

\* The step is a refreshAccessToken() storing the triple of its exchange.
RefreshStoreStep ==
    \E i \in Callers :
        /\ refreshes[i].st = "fetch"
        /\ refreshes'[i].st \in {"callback", "rejected"}
        /\ refreshes'[i].data = tokens'

\* The step is an exchangeAuthorizationCode() storing the triple it got.
ExchangeStoreStep ==
    \E c \in Callers :
        /\ kind[c] = "exchange"
        /\ call[c].pc = "exchanging"
        /\ call'[c].pc = "returned"

\* The step is a deauthorize() whose request came back with success.
DeauthorizedStep ==
    \E c \in Callers :
        /\ kind[c] = "deauthorize"
        /\ call[c].pc = "inflight"
        /\ call'[c].pc = "done"

\* C11, as amended: the credentials take a new value only in a step of
\* setTokens, of a refresh storing the triple of its successful exchange, or
\* of exchangeAuthorizationCode storing the triple it got; they become absent
\* only in a step of clearTokens or of a deauthorize whose request succeeded.
C11_WhoChangesTokens ==
    [][/\ (tokens' # tokens /\ tokens'.held =>
             \/ OnlyTokensChange
             \/ RefreshStoreStep
             \/ ExchangeStoreStep)
       /\ (tokens.held /\ ~tokens'.held =>
             \/ OnlyTokensChange
             \/ DeauthorizedStep)]_vars

\* C11 as stated: the credentials take a new value only through setTokens or
\* a refresh, and become absent only through clearTokens.
C11_OnlyRefreshSetClear ==
    [][/\ (tokens' # tokens /\ tokens'.held => OnlyTokensChange \/ RefreshStoreStep)
       /\ (tokens.held /\ ~tokens'.held => OnlyTokensChange)]_vars

\* An exchangeAuthorizationCode() has stored its triple and a deauthorize()
\* has since removed the credentials.
C11_Witness ==
    \E c, d \in Callers :
        /\ kind[c] = "exchange"
        /\ call[c].pc = "returned"
        /\ kind[d] = "deauthorize"
        /\ call[d].pc = "done"
        /\ ~tokens.held

\* C12: hasValidTokens() returns false when no credentials are held, and
\* otherwise true exactly when expiresAt is strictly greater than the clock.
C12_ValidIffStrictlyLater ==
    [][asked' # asked =>
          asked'.res = (tokens.held /\ tokens.expiresAt > now)]_vars

\* hasValidTokens() has just returned false for credentials whose expiresAt
\* equals the clock.
C12_Witness ==
    /\ asked.made
    /\ ~asked.res
    /\ tokens.held
    /\ tokens.expiresAt = now

C14_PreAbortedNoNetwork ==
    rq.pre => \A i \in DOMAIN fxs : ~fxs[i].io

C16_HookNeverSeesToken ==
    /\ [](\A i \in DOMAIN fxs :
            /\ \A k \in DOMAIN fxs[i].hookReq : fxs[i].hookReq[k] \in {0, Redacted}
            /\ (netcfg.onRequest /\ fxs[i].sentAuth # 0 =>
                  fxs[i].hookReq = <<Redacted>>))
    /\ [][Len(fxs') > Len(fxs) /\ fxs'[Len(fxs')].op \in {"json", "text", "deauthorize"} =>
            /\ fxs'[Len(fxs')].sentAuth = tokens'.accessToken
            /\ fxs'[Len(fxs')].sentAuth > 0]_vars

\* After a refresh, the request carries the refreshed access token and the
\* hook was handed the placeholder.
C16_Witness ==
    /\ Len(fxs) = 2
    /\ fxs[2].op = "json"
    /\ fxs[2].sentAuth = 2
    /\ fxs[2].hookReq = <<Redacted>>
    /\ fxs[1].hookReq = <<0>>

\* C17: with onRequest configured, every fetch of the client, API request
\* or token exchange, has invoked the hook exactly once, and did so before
\* fetch() was called.
C17_OnRequestOnceBeforeFetch ==
    \A i \in DOMAIN fxs :
        LET ev == fxs[i].events
        IN IF netcfg.onRequest
           THEN /\ Len(ev) >= 2 /\ ev[1] = "onRequest" /\ ev[2] = "fetch"
                /\ Cardinality({k \in DOMAIN ev : ev[k] = "onRequest"}) = 1
                /\ Len(fxs[i].hookReq) = 1
           ELSE /\ ev[1] = "fetch"
                /\ fxs[i].hookReq = <<>>

\* With onRequest configured, a call has made a token exchange and then its
\* API request, each after one invocation of the hook.
C17_Witness ==
    /\ netcfg.onRequest
    /\ Len(fxs) = 2
    /\ fxs[1].op = "refresh" /\ SubSeq(fxs[1].events, 1, 2) = <<"onRequest", "fetch">>
    /\ fxs[2].op = "json" /\ fxs[2].events = <<"onRequest", "fetch">>

\* C18: with onResponse configured, every fetch that is over has invoked the
\* hook exactly once, whether it ended with a response or a transport failure.
C18_OnResponseOnEveryCompletion ==
    netcfg.onResponse =>
        \A i \in DOMAIN fxs :
            fxs[i].st \in {"done", "failed"} => Len(fxs[i].hookRes) = 1

\* C19: no fetch flagged skipRateLimit has invoked the onResponse hook.
C19_NoOnResponseWhenSkipped ==
    \A i \in DOMAIN fxs : fxs[i].skip => fxs[i].hookRes = <<>>

\* The fetch in flight gets its response in this step.
Responded ==
    /\ Len(fxs) > 0
    /\ Len(fxs') >= Len(fxs)
    /\ fxs[Len(fxs)].st = "fetching"
    /\ fxs'[Len(fxs)].status # 0

\* The fetch that got its response in this step.
Got == fxs'[Len(fxs)]

\* C20: the snapshot is absent at first and changes only when a response
\* with both headers is processed; a processed response with limit "a,b"
\* and usage "c,d" makes the snapshot {shortTerm: {limit a, usage c},
\* longTerm: {limit b, usage d}}, whatever it was; a response lacking either
\* header leaves it as it was. (Processed: of a fetch not flagged
\* skipRateLimit.)
C20_SnapshotFromHeaders ==
    /\ ~rateLimitInfo.held
    /\ [][rateLimitInfo' # rateLimitInfo =>
            Responded /\ ~Got.skip /\ Got.lim.present /\ Got.use.present]_vars
    /\ [][\A a, b, c, d \in RateNumbers :
            Responded /\ ~Got.skip /\ Got.lim = Pair(a, b) /\ Got.use = Pair(c, d) =>
                rateLimitInfo' = [held |-> TRUE,
                                  shortTerm |-> [usage |-> c, limit |-> a],
                                  longTerm |-> [usage |-> d, limit |-> b]]]_vars
    /\ [][Responded /\ ~(Got.lim.present /\ Got.use.present) =>
            rateLimitInfo' = rateLimitInfo]_vars

\* A response with limit "1,12" and usage "12,1" has been processed and
\* the snapshot is the one it describes.
C20_Witness ==
    /\ Len(fxs) = 1
    /\ fxs[1].st = "done"
    /\ fxs[1].lim = Pair(1, 12) /\ fxs[1].use = Pair(12, 1)
    /\ rateLimitInfo = [held |-> TRUE,
                        shortTerm |-> [usage |-> 12, limit |-> 1],
                        longTerm |-> [usage |-> 1, limit |-> 12]]

\* A field of the snapshot is a number.
Numeric(x) == x # NaN /\ x # Undefined

\* C21: the snapshot never holds a field that is not a number or is missing,
\* and a response one of whose headers is present but no pair of two
\* numbers leaves the snapshot as it was.
C21_MalformedLeavesSnapshot ==
    /\ [](rateLimitInfo.held =>
            /\ Numeric(rateLimitInfo.shortTerm.limit)
            /\ Numeric(rateLimitInfo.shortTerm.usage)
            /\ Numeric(rateLimitInfo.longTerm.limit)
            /\ Numeric(rateLimitInfo.longTerm.usage))
    /\ [][\A r \in Flights :
            /\ flights[r].st = "inflight" /\ flights'[r].st = "done"
            /\ \/ flights'[r].lim.present /\ Len(Split(flights'[r].lim.text)) # 2
               \/ flights'[r].use.present /\ Len(Split(flights'[r].use.text)) # 2
            => rateLimitInfo' = rateLimitInfo]_vars

\* C22: a response to a fetch not flagged skipRateLimit updates the snapshot
\* from its headers whatever its status, and a non-success response does so
\* in the step that ends the call with the Http error, not after it; a
\* response to a fetch flagged skipRateLimit leaves the snapshot as it was.
C22_ProcessedUnlessSkipped ==
    /\ [][Responded /\ ~Got.skip =>
            /\ rateLimitInfo' = updateRateLimitInfo(rateLimitInfo, Got.lim, Got.use)
            /\ (~StatusOk(Got.status) => Got.out = "Http" /\ rq'.out = "Http")]_vars
    /\ [][Responded /\ Got.skip => rateLimitInfo' = rateLimitInfo]_vars
    /\ [](\A i \in DOMAIN fxs :
            fxs[i].skip = (fxs[i].op \in {"refresh", "exchange", "deauthorize"}))

\* A request not flagged has been answered with status 500 and the headers
\* "1,12" and "12,1": the call ended with the Http error and the snapshot
\* is the one the headers describe.
C22_Witness ==
    /\ Len(fxs) = 1
    /\ ~fxs[1].skip
    /\ fxs[1].status = 500 /\ fxs[1].out = "Http"
    /\ rq.pc = "ended" /\ rq.out = "Http"
    /\ fxs[1].lim = Pair(1, 12) /\ fxs[1].use = Pair(12, 1)
    /\ rateLimitInfo = [held |-> TRUE,
                        shortTerm |-> [usage |-> 12, limit |-> 1],
                        longTerm |-> [usage |-> 1, limit |-> 12]]

\* The requests of the batch whose response carried both headers.
Bearing == {r \in Flights : flights[r].st = "done" /\ bothPresent(flights[r].lim, flights[r].use)}
\* The one of them whose response was processed last.
LastBearing == CHOOSE r \in Bearing : \A q \in Bearing : flights[q].doneAt <= flights[r].doneAt

\* C23: when the requests in flight together are all over and the response
\* of one at least carried both headers, the snapshot is the one made from
\* the headers of the response processed last among those, wherever that
\* request stood in the order of sending.
C23_LastProcessedWins ==
    (\A r \in Flights : flights[r].st = "done") /\ Bearing # {} =>
        rateLimitInfo = updateRateLimitInfo(NoRateLimit, flights[LastBearing].lim,
                                            flights[LastBearing].use)

\* Two requests were in flight together; the one sent first was answered
\* last, with headers unlike the other's, and the snapshot is made from its
\* headers.
C23_Witness ==
    /\ flights[1].st = "done" /\ flights[2].st = "done"
    /\ flights[1].sentAt = 1 /\ flights[2].sentAt = 2
    /\ flights[1].doneAt = 2 /\ flights[2].doneAt = 1
    /\ flights[1].lim = Pair(1, 12) /\ flights[1].use = Pair(12, 1)
    /\ flights[2].lim = Pair(12, 1) /\ flights[2].use = Pair(1, 12)
    /\ rateLimitInfo = [held |-> TRUE,
                        shortTerm |-> [usage |-> 12, limit |-> 1],
                        longTerm |-> [usage |-> 1, limit |-> 12]]

\* The pages a run has fetched, as the source gives them, one after another.
RECURSIVE Flatten(_, _)
Flatten(src, n) == IF n = 0 THEN <<>> ELSE Flatten(src, n - 1) \o PageOf(src, n)
\* A page that ends a run: empty, or shorter than the page size.
Short(src, k, perPage) == Len(PageOf(src, k)) = 0 \/ Len(PageOf(src, k)) < perPage
\* The first such page of a source.
StopPage(src, perPage) ==
    CHOOSE k \in 1..(MaxPages + 1) :
        Short(src, k, perPage) /\ \A j \in 1..(k - 1) : ~Short(src, j, perPage)
\* The run is over: the generator has ended.
RunOver == pg.pc = "done"

\* C24: the pages requested are 1, 2, 3, ... in order; a page is requested
\* only when none is awaited; no page is requested after one that was empty
\* or shorter than the page size; and a run that is over has requested
\* exactly the pages up to the first such page.
C24_PagesInOrderUntilShort ==
    /\ [](/\ \A k \in DOMAIN pg.fetches : pg.fetches[k] = k
          /\ \A k \in DOMAIN pg.fetches :
                k < Len(pg.fetches) => ~Short(pg.src, k, pg.perPage)
          /\ (RunOver => Len(pg.fetches) = StopPage(pg.src, pg.perPage)))
    /\ [][pg'.fetches # pg.fetches =>
            /\ pg.pc # "fetching"
            /\ pg'.pc = "fetching"
            /\ pg'.fetches = Append(pg.fetches, Len(pg.fetches) + 1)]_vars

\* A source [a,b],[c] read with page size 2 is over after 2 fetches.
C24_Witness ==
    /\ RunOver
    /\ pg.src = <<2, 1>> /\ pg.perPage = 2
    /\ pg.fetches = <<1, 2>>
    /\ pg.yielded = <<11, 12, 21>>

\* C25: what paginateAll returns is the sequence the generator yielded, and
\* for a given source and page size both the eager and the lazy run that
\* is pulled to its end give the same sequence: the items of the pages up
\* to the first empty or short one, in page order and then in the order
\* within the page.
C25_EagerEqualsLazy ==
    RunOver =>
        /\ pg.yielded = Flatten(pg.src, StopPage(pg.src, pg.perPage))
        /\ pg.yielded = Flatten(pg.src, Len(pg.fetches))
        /\ (pg.mode = "eager" => pg.all = pg.yielded)

\* paginateAll has returned [a,b,c] for the source [a,b],[c] read with page
\* size 2.
C25_Witness ==
    /\ RunOver
    /\ pg.mode = "eager"
    /\ pg.src = <<2, 1>> /\ pg.perPage = 2
    /\ pg.all = <<11, 12, 21>>

\* The fewest pages that hold the first n items of a source.
PagesNeeded(src, n) ==
    CHOOSE k \in 0..(MaxPages + 1) :
        /\ Len(Flatten(src, k)) >= n
        /\ \A j \in 0..(k - 1) : Len(Flatten(src, j)) < n

\* C26: while the application holds an item of the lazy iteration, or has
\* pulled none yet, or has left the iteration, the pages requested are
\* exactly the pages that hold the items yielded so far; and once the
\* application has left the iteration no page is requested any more.
C26_NoFetchBeyondConsumption ==
    /\ [](pg.mode = "lazy" /\ pg.pc \in {"created", "suspended", "returned"} =>
            Len(pg.fetches) = PagesNeeded(pg.src, Len(pg.yielded)))
    /\ [][pg.pc = "returned" => pg'.fetches = pg.fetches]_vars

\* The application left the iteration after the first of the two items of
\* page 1, of a source that has a second page: one page was requested.
C26_Witness ==
    /\ pg.mode = "lazy"
    /\ pg.pc = "returned"
    /\ pg.src = <<2, 2>> /\ pg.perPage = 2
    /\ pg.yielded = <<11>>
    /\ pg.fetches = <<1>>

\* The class of error a status is classified as, in the claim's words.
KindOfStatus(status) ==
    CASE status = 429 -> "StravaRateLimitError"
      [] status = 401 -> "StravaAuthenticationError"
      [] status = 403 -> "StravaAuthorizationError"
      [] status = 404 -> "StravaNotFoundError"
      [] status = 400 -> "StravaValidationError"
      [] status >= 500 -> "StravaApiError"
      [] OTHER -> "StravaError"

\* C27: the error made from a response has the class of its status; a
\* StravaRateLimitError carries the limit and usage headers as they came
\* and, for a retry-after header that writes a number, that number; a
\* StravaApiError carries the status; for any other status the error is a
\* StravaError with code STRAVA_HTTP_ERROR that carries the status.
C27_KindByStatus ==
    cls.input.type = "response" =>
        LET r == cls.input
            e == cls.out
        IN /\ e.type = "StravaError"
           /\ e.class = KindOfStatus(r.status)
           /\ (r.status = 429 =>
                 /\ e.limit = r.limit /\ e.usage = r.usage
                 /\ (r.retryAfter = Header(Enc(12)) => e.retryAfter = 12)
                 /\ (~r.retryAfter.present => e.retryAfter = Undefined))
           /\ (e.class = "StravaApiError" => e.statusCode = r.status)
           /\ (e.class = "StravaError" =>
                 e.code = "STRAVA_HTTP_ERROR" /\ e.statusCode = r.status)

\* A response with status 503 was classified as StravaApiError with
\* statusCode 503.
C27_Witness ==
    /\ cls.input.type = "response"
    /\ cls.input.status = 503
    /\ cls.out.class = "StravaApiError"
    /\ cls.out.statusCode = 503

\* C28: given a StravaError, parseStravaError returns that instance, so
\* that giving it its own result returns that result; given an exception
\* that is no StravaError it returns a new plain StravaError with the
\* exception's message, and given any other value one with the value's
\* string form as message.
C28_PassThroughAndGeneric ==
    /\ (cls.input.type = "StravaError" => cls.out = cls.input)
    /\ (cls.again.type # "none" => cls.again = cls.out)
    /\ (cls.input.type = "Error" =>
          /\ cls.out.class = "StravaError" /\ cls.out.id = 2
          /\ cls.out.message = cls.input.message)
    /\ (cls.input.type = "string" =>
          /\ cls.out.class = "StravaError" /\ cls.out.id = 2
          /\ cls.out.message = cls.input.text)
    /\ (cls.input.type = "number" =>
          /\ cls.out.class = "StravaError" /\ cls.out.id = 2
          /\ cls.out.message = <<"1", "2">>)
    /\ (cls.input.type \in {"null", "object"} =>
          cls.out.class = "StravaError" /\ cls.out.id = 2)

\* A StravaAuthenticationError was given, returned as it was, and returned
\* again when the result was given.
C28_Witness ==
    /\ cls.input = StravaAuthenticationError(1, <<"Original">>)
    /\ cls.out.id = 1
    /\ cls.again = cls.input

\* The outcomes that are errors of the taxonomy.
TaxonomyOutcomes == {"Http", "NetworkTimeout", "NetworkUnreachable", "Validation",
                     "TokenRefresh"}

\* C29: a call that ended otherwise than with its result or with the
\* AbortError of the caller's cancellation ended with an error of the
\* taxonomy.
C29_FailuresAreClassified ==
    rq.pc = "ended" /\ rq.out \notin {"ok", "AbortError"} =>
        rq.out \in TaxonomyOutcomes

\* The fetches of the call under way that are token exchanges of a refresh,
\* and those that are its API request.
RefreshFetches == {i \in DOMAIN fxs : fxs[i].op = "refresh"}
ApiFetches == {i \in DOMAIN fxs : fxs[i].op # "refresh"}

\* C30: one call makes at most one token exchange of a refresh and at most
\* one API request; a fetch that failed, with whatever error, is the last
\* of its call, the call is over with it, and no fetch follows it.
C30_NoRetry ==
    /\ [](/\ Cardinality(RefreshFetches) <= 1
          /\ Cardinality(ApiFetches) <= 1
          /\ \A i \in DOMAIN fxs :
                fxs[i].st = "failed" => i = Len(fxs) /\ rq.pc = "ended")
    /\ [][Len(fxs) > 0 /\ fxs[Len(fxs)].st = "failed" => fxs' \in {fxs, <<>>}]_vars

\* A call refreshed the credentials and its API request was answered with
\* status 500: the call is over after one exchange and one request.
C30_Witness ==
    /\ rq.pc = "ended" /\ rq.out = "Http"
    /\ Len(fxs) = 2
    /\ fxs[1].op = "refresh" /\ fxs[1].st = "done"
    /\ fxs[2].op = "json" /\ fxs[2].status = 500

\* C31: testConnection never fails: what it returns is "true" exactly when
\* its getAthlete() call ended with its result, and "false" when it ended
\* with any error (no access token, a refresh that failed, an HTTP error, a
\* timeout, an unreachable network, an error of fetch() thrown on as it is).
C31_TestConnectionNeverThrows ==
    rq.op = "test" /\ rq.ret # "none" =>
        /\ rq.pc = "ended"
        /\ rq.ret \in {"true", "false"}
        /\ rq.ret = "true" <=> rq.out = "ok"

\* testConnection returned false after the request of its getAthlete() had
\* timed out.
C31_Witness ==
    /\ rq.op = "test" /\ rq.ret = "false"
    /\ rq.out = "NetworkTimeout"
    /\ fxs[Len(fxs)].cause = "timer"

\* C32: validateWebhookVerification returns the challenge of the request
\* exactly when its hub.mode is "subscribe" and its hub.verify_token is the
\* expected token; otherwise it returns null; it never throws.
C32_VerificationEchoesChallenge ==
    webhook.op = "verify" =>
        /\ webhook.out.threw = "none"
        /\ IF webhook.input.mode = "subscribe" /\ webhook.input.verify_token = webhook.expected
           THEN webhook.out.value = [type |-> "string", text |-> webhook.input.challenge]
           ELSE webhook.out.value = Null

\* A subscribe request with a wrong verify token was given, and null came
\* back.
C32_Witness ==
    /\ webhook.op = "verify"
    /\ webhook.input.mode = "subscribe"
    /\ webhook.input.verify_token # webhook.expected
    /\ webhook.out = Returned(Null)

\* The payload is an object with every required field of the right type and
\* with valid enumerations.
ValidEvent(payload) ==
    /\ payload.type = "object"
    /\ payload.fields.object_type \in {Str(x) : x \in validObjectTypes}
    /\ payload.fields.aspect_type \in {Str(x) : x \in validAspectTypes}
    /\ \A f \in {"object_id", "owner_id", "subscription_id", "event_time"} :
          typeof(payload.fields[f]) = "number"

\* C33: parseWebhookEvent returns the payload when it is a valid event, and
\* for every other payload value it fails with a Validation error.
C33_ParsesOrValidationError ==
    webhook.op = "parse" =>
        IF ValidEvent(webhook.input)
        THEN webhook.out = Returned(webhook.input)
        ELSE webhook.out = Threw("Validation")

\* The step in which an exchangeAuthorizationCode call ends.
ExchangeEnds == rq.op = "exchange" /\ rq.pc = "fetching" /\ rq'.pc = "ended"

\* C34: an exchangeAuthorizationCode that succeeds stores the triple the
\* server returned and ends with its result, onTokenRefresh is not invoked
\* and the rate-limit snapshot stays as it was, whatever headers the response
\* carried; one that fails leaves the stored credentials as they were.
C34_ExchangeStoresQuietly ==
    [][ExchangeEnds =>
          IF rq'.out = "ok"
          THEN /\ tokens' \in ServerTokens(1)
               /\ rateLimitInfo' = rateLimitInfo
               /\ \A i \in DOMAIN fxs' : \A k \in DOMAIN fxs'[i].events :
                     fxs'[i].events[k] # "onTokenRefresh"
          ELSE /\ tokens' = tokens
               /\ rateLimitInfo' = rateLimitInfo]_vars

\* An exchange was answered with rate-limit headers: the triple is stored,
\* and there is still no rate-limit snapshot.
C34_Witness ==
    /\ rq.op = "exchange" /\ rq.pc = "ended" /\ rq.out = "ok"
    /\ fxs[1].lim = Pair(1, 12) /\ fxs[1].use = Pair(12, 1)
    /\ tokens \in ServerTokens(1)
    /\ ~rateLimitInfo.held

\* Caller c's facade call refreshes the credentials before its request: it
\* starts a refresh or waits on the one under way.
RefreshesFirst(c) == call'[c].pc \in {"awaitOwn", "awaitOther"}

\* C35: with auto-refresh on, a facade call that finds credentials held and
\* not valid (expiresAt <= now) refreshes them first whenever refreshBuffer
\* is above 0; it goes on without a refresh only when refreshBuffer is 0, and
\* then exactly when expiresAt equals now.
C35_ExpiredIsDue ==
    [][\A c \in Callers :
          /\ FacadeStarts(c)
          /\ config.autoRefresh
          /\ tokens.held
          /\ ~hasValidTokens(tokens, now)
          => /\ config.refreshBuffer > 0 => RefreshesFirst(c)
             /\ ~RefreshesFirst(c) <=>
                   config.refreshBuffer = 0 /\ tokens.expiresAt = now]_vars

\* The buffer is 0, the clock has reached the instant the credentials expire
\* at, and a facade call has sent its request with no refresh started.
C35_Witness ==
    /\ config.autoRefresh /\ config.refreshBuffer = 0
    /\ now = 1
    /\ tokens.held /\ tokens.expiresAt = now
    /\ ~hasValidTokens(tokens, now)
    /\ call[1].pc = "inflight"
    /\ \A i \in Callers : refreshes[i].st = "none"

\* The source of the run gives, sometime, a page that is empty or shorter
\* than the page size.
EventuallyShort ==
    ~pg.endless \/ \E k \in DOMAIN pg.src : Short(pg.src, k, pg.perPage)

\* C36, as amended: a run that is drained, lazy or eager, on a source that
\* sometime gives a page that is empty or shorter than the page size comes to
\* its end, and has then requested as many pages as the index of the first
\* such page.
C36_DrainTerminates ==
    /\ (pg.mode # "none" /\ EventuallyShort) ~> RunOver
    /\ [](RunOver => Len(pg.fetches) = StopPage(pg.src, pg.perPage))

\* C36 as stated: on every source a drained run comes to its end.
C36_EverySourceFinite == pg.mode # "none" ~> RunOver

\* An eager run on a source whose first page is full and whose second is
\* short, full pages following without end: the run is over after two
\* requests.
C36_Witness ==
    /\ pg.mode = "eager" /\ pg.endless
    /\ pg.src = <<2, 1>> /\ pg.perPage = 2
    /\ RunOver
    /\ pg.fetches = <<1, 2>>

\* A facade call begins: request, requestText, deauthorize or testConnection.
FacadeBegins == rq.pc = "idle" /\ rq'.pc # "idle" /\ rq'.op # "exchange"
\* The facade call under way takes a step of its own.
FacadeMoves ==
    /\ rq.op \in {"json", "text", "test"}
    /\ rq' # rq \/ fxs' # fxs

\* C37: with autoRefresh off no facade call makes the token exchange of a
\* refresh, however stale the credentials: the call that begins sends its
\* API request at once with the stored access token (or fails with a
\* Validation error when there is none), and no step of request, requestText
\* or testConnection changes the credentials.
C37_NoRefreshWhenDisabled ==
    /\ [](~config.autoRefresh => \A i \in DOMAIN fxs : fxs[i].op # "refresh")
    /\ [][~config.autoRefresh /\ FacadeBegins =>
            /\ tokens' = tokens
            /\ IF hasAccessToken(tokens)
               THEN /\ rq'.pc = "fetching"
                    /\ Len(fxs') = 1
                    /\ fxs'[1].op = via(rq'.op)
                    /\ fxs'[1].sentAuth = tokens.accessToken
               ELSE /\ rq'.pc = "ended" /\ rq'.out = "Validation"
                    /\ fxs' = <<>>]_vars
    /\ [][~config.autoRefresh /\ FacadeMoves => tokens' = tokens]_vars

\* With autoRefresh off and credentials that expired, a request() call sent
\* its API request with the stored access token, got its answer, and the
\* credentials are what they were.
C37_Witness ==
    /\ ~config.autoRefresh
    /\ tokens = Tok(1, 1, 0)
    /\ shouldRefresh(tokens, now, config.refreshBuffer)
    /\ rq.op = "json" /\ rq.pc = "ended" /\ rq.out = "ok"
    /\ Len(fxs) = 1
    /\ fxs[1].sentAuth = 1

\* C40: when both the timeout and the caller's signal have fired during a
\* call, the call ends as the one that fired first has it: with the
\* AbortError of the cancellation when the signal fired first, with the
\* timeout's Network error when the timeout fired first.
C40_FirstToFireDecides ==
    rq.pc = "ended" /\ Len(rq.fires) = 2 =>
        /\ rq.fires[1] = "user" => rq.out = "AbortError"
        /\ rq.fires[1] = "timer" => rq.out = "NetworkTimeout"

\* C38: a facade call that resumes from a refresh that succeeded, one it
\* started or one it waited on, sends its API request then, and the
\* credentials its Authorization header is built from in that step are the
\* triple that refresh stored, when no setTokens or clearTokens came between
\* the storing and the resumption.
C38_RequestCarriesRefreshed ==
    [][\A c \in Callers :
          FacadeResumes(c) /\ refreshes[call[c].ref].st = "resolved" =>
              /\ tokens \in ServerTokens(call[c].ref)
              /\ tokens = refreshes[call[c].ref].data
              /\ hasAccessToken(tokens)
              /\ call'[c].pc = "inflight"
              /\ call'[c].sent = call[c].sent + 1
              /\ tokens' = tokens]_vars

\* The call that started the refresh has sent its request, the refreshed
\* triple is stored, and a second call that waited on the same refresh is
\* about to resume.
C38_Witness ==
    /\ NumCallers >= 2
    /\ call[1].pc = "inflight" /\ call[1].sent = 1
    /\ call[2].pc = "awaitOther" /\ call[2].ref = 1
    /\ refreshes[1].st = "resolved"
    /\ tokens \in ServerTokens(1)

\* The exchange of refresh i has succeeded and the refresh goes on from it.
ExchangeSucceeds(i) ==
    /\ refreshes[i].st = "fetch"
    /\ refreshes'[i].st # "fetch"
    /\ refreshes'[i].err \notin ExchangeErrors

\* C39: whatever setTokens and clearTokens have made of the credentials
\* while the exchange of a refresh was in flight, the refresh is neither
\* cancelled nor invalidated: when its exchange succeeds the credentials
\* become the triple it received, and onTokenRefresh is invoked with them.
C39_InFlightRefreshOverwrites ==
    /\ [][\A i \in Callers : ExchangeSucceeds(i) =>
            /\ tokens' \in ServerTokens(i)
            /\ refreshes'[i].data = tokens'
            /\ refreshes'[i].cb = <<tokens'>>]_vars
    /\ [][\A i \in Callers :
            refreshes[i].st = "fetch" /\ tokens' # tokens /\ ~ExchangeSucceeds(i) =>
                refreshes'[i] = refreshes[i]]_vars

\* The credentials were cleared while the exchange of the refresh a facade
\* call started is in flight.
C39_Witness ==
    \E c \in Callers :
        /\ call[c].pc = "awaitOwn"
        /\ refreshes[c].st = "fetch"
        /\ refreshPromise = c
        /\ ~tokens.held

====
